---- MODULE Spec2Model ----
(***************************************************************************)
(* A model of the run-preparation core of TITO Cuba:                       *)
(*   - find_available_states / prepare_ef5   (tito_utils/ef5/ef5_routines) *)
(*   - write_control_file                    (tito_utils/ef5/ef5_routines) *)
(*   - the data-assimilation selector        (tito_utils/da_utils)         *)
(*   - the high-resolution gauge selector    (tito_utils/highres_utils)    *)
(* Times are minutes since an epoch.  A text line is a sequence of tokens, *)
(* a token a record [t |-> text, n |-> number]; a file is a sequence of    *)
(* lines; a path is a sequence of path components.                         *)
(***************************************************************************)
EXTENDS Integers, Sequences, FiniteSets, TLC

VARIABLES
    \* ---- state resolution (find_available_states, prepare_ef5)
    store,                \* the state directory: <<state, stamp>> -> "absent" | "empty" | "data"
    modelStates,          \* the required state variables, in order
    systemStartTime,      \* the desired start time
    failTime,             \* the floor of the search
    realSystemStartTime,  \* the candidate / resolved start time
    foundAllStates,       \* the search flag
    pc,                   \* position of prepare_ef5
    tested,               \* the timestamps probed so far, in order
    \* ---- control-document rendering (write_control_file)
    fs,                   \* the text files on disk: path -> sequence of lines
    LR_run,               \* forecast-extended mode (config run_LR)
    out,                  \* the arguments and the result of the last render
    pin,                  \* one earlier render, kept for comparison
    nRenders,             \* renders done so far
    \* ---- data assimilation (da_utils)
    daListFile,           \* the reservoir list file: [exists, lines]
    daFiles,              \* the series files on disk: path -> sequence of rows
    elementwiseDates,     \* the installed pandas parses format-less dates row by row
    start_time,           \* the simulation window, in days of the year
    end_time,
    consolidatedDir,      \* the consolidated folder: file name -> table
    reservoirs,           \* the list read_reservoir_list returned
    da_path_map,          \* reservoir -> path of the selected series
    consolidated_csv_path, \* what create_consolidated_da_csv returned, <<>> for None
    \* ---- high-resolution gauge selection (highres_utils, orchestrator)
    maxunitq,             \* the output raster of the standard run: [exists, band]
    maskgrid,             \* the mask raster: [exists, footprints]
    gaugeList,            \* the gauge list file: [exists, lines]
    hrTemplate,           \* the high-resolution template file: [exists, lines]
    highres_min_gauges,   \* the configured minimum
    selection,            \* what prepare_highres_control returned: [returned, gauge_ids]
    templateWritten,      \* the template file has been written
    hrPath,               \* the stages of the high-resolution path that were started
    \* ---- alerts (send_state_alerts) and the orchestrator's cycle
    SEND_ALERTS,          \* config: alert mails are sent
    alert_recipients,     \* config: the recipients, in order
    mails,                \* the calls of send_mail so far: [to, severity]
    steps,                \* the calls prepare_ef5 has made, in order
    engine,               \* the engine of the standard run: "idle" | "running" | "finished"
    run_highres,          \* config: the high-resolution path is wanted
    highres_threshold,    \* config: [set, value], not set when the config omits it
    highres_tmpOutput,    \* the working directory of the high-resolution run
    highres_dataPath      \* the output directory of the high-resolution run

vars == <<store, modelStates, systemStartTime, failTime, realSystemStartTime,
          foundAllStates, pc, tested, fs, LR_run, out, pin, nRenders,
          daListFile, daFiles, elementwiseDates, start_time, end_time,
          consolidatedDir, reservoirs, da_path_map, consolidated_csv_path,
          maxunitq, maskgrid, gaugeList, hrTemplate, highres_min_gauges,
          selection, templateWritten, hrPath,
          SEND_ALERTS, alert_recipients, mails, steps, engine, run_highres,
          highres_threshold, highres_tmpOutput, highres_dataPath>>

statesVars == <<store, modelStates, systemStartTime, failTime,
                realSystemStartTime, foundAllStates, tested>>
renderVars == <<fs, LR_run, out, pin, nRenders>>
daInputs == <<daListFile, daFiles, elementwiseDates, start_time, end_time>>
daVars == <<daListFile, daFiles, elementwiseDates, start_time, end_time,
            consolidatedDir, reservoirs, da_path_map, consolidated_csv_path>>

hrVars == <<maxunitq, maskgrid, gaugeList, hrTemplate, highres_min_gauges,
            selection, templateWritten, hrPath>>

alertConfig == <<SEND_ALERTS, alert_recipients>>
cycleConfig == <<run_highres, highres_threshold, highres_tmpOutput, highres_dataPath>>
cycleVars == <<SEND_ALERTS, alert_recipients, mails, steps, engine, run_highres,
               highres_threshold, highres_tmpOutput, highres_dataPath>>

\* the data-assimilation selector at rest
DaIdle ==
    /\ daListFile = [exists |-> FALSE, lines |-> <<>>]
    /\ daFiles = <<>>
    /\ elementwiseDates = FALSE
    /\ start_time = 1
    /\ end_time = 1
    /\ consolidatedDir = <<>>
    /\ reservoirs = <<>>
    /\ da_path_map = <<>>
    /\ consolidated_csv_path = <<>>

HrOutputsIdle ==
    /\ selection = [returned |-> FALSE, gauge_ids |-> <<>>]
    /\ templateWritten = FALSE
    /\ hrPath = <<>>

\* the high-resolution step at rest
HrIdle ==
    /\ maxunitq = [exists |-> FALSE, band |-> <<>>]
    /\ maskgrid = [exists |-> FALSE, footprints |-> <<>>]
    /\ gaugeList = [exists |-> FALSE, lines |-> <<>>]
    /\ hrTemplate = [exists |-> FALSE, lines |-> <<>>]
    /\ highres_min_gauges = 1
    /\ HrOutputsIdle

-----------------------------------------------------------------------------
(* Bounds of the model *)

\* the state directory holds files for the desired time and MaxBack steps before it
MaxBack == 2
\* renders of one behaviour of the rendering specification
MaxRenders == 3
\* rows of all the series files together
MaxRows == 2
\* cells of the mask raster under the output raster, all footprints together
MaxMask == 2

-----------------------------------------------------------------------------
(* Time and its formatting *)

\* timedelta(minutes=30): the backtracking step
StepMinutes == 30

\* strftime('%Y%m%d%H%M') / strftime('%Y%m%d_%H%M'): the calendar stamp of a
\* time, the date collapsed to a day number, then two digits of hour and two of minute
strftime(t) ==
    (t \div 1440) * 10000 + ((t % 1440) \div 60) * 100 + (t % 60)

-----------------------------------------------------------------------------
(* The state directory *)

\* f"{statesPath}{state}_{t.strftime('%Y%m%d_%H%M')}.tif"
state_path(state, t) == <<state, strftime(t)>>

isfile(st, p) == p \in DOMAIN st /\ st[p] # "absent"
getsize(st, p) == IF st[p] = "data" THEN 1 ELSE 0

is_non_zero_file_exists_only(st, p) == isfile(st, p)
is_non_zero_file(st, p) == isfile(st, p) /\ getsize(st, p) > 0

\* the for loop of find_available_states: every state of the list is probed
AllStatesPresent(st, states, t) ==
    \A i \in 1..Len(states) : is_non_zero_file(st, state_path(states[i], t))

-----------------------------------------------------------------------------
(* Text, files and directories *)

Tok(s) == [t |-> s, n |-> 0]
\* a formatted time inside a line
StampTok(t) == [t |-> "stamp", n |-> strftime(t)]

NL == Tok("\n")

\* "s in line"
Contains(line, s) == \E i \in 1..Len(line) : line[i].t = s

\* line.lstrip().startswith('#')
StartsWithHash(line) ==
    \E i \in 1..Len(line) :
        /\ line[i].t = "#"
        /\ \A j \in 1..(i - 1) : line[j].t \in {" ", "\n"}

\* re.sub(placeholder, value, line): every occurrence is replaced
sub(placeholder, value, line) ==
    [i \in 1..Len(line) |-> IF line[i] = Tok(placeholder) THEN value ELSE line[i]]

IsPrefix(d, p) == Len(d) <= Len(p) /\ SubSeq(p, 1, Len(d)) = d

\* rmtree(d, ignore_errors=1): the directory and everything below it is gone
rmtree(files, d) ==
    [p \in {q \in DOMAIN files : ~IsPrefix(d, q)} |-> files[p]]

\* open(path, "w"); write(...); close(): the file holds exactly the lines written
write_file(files, path, lines) ==
    [p \in DOMAIN files \cup {path} |-> IF p = path THEN lines ELSE files[p]]

\* open(path, "a"): the lines follow what the file held
append_file(files, path, lines) ==
    [p \in DOMAIN files \cup {path} |->
        IF p = path
        THEN (IF path \in DOMAIN files THEN files[path] ELSE <<>>) \o lines
        ELSE files[p]]

-----------------------------------------------------------------------------
(* write_control_file *)

\* the nine re.sub calls of the loop body, in the order of the code
Substitute(line, a) ==
    LET l1 == sub("{OUTPUTPATH}", Tok(a.tmpOutput.text), line)
        l2 == sub("{STATESPATH}", Tok(a.statesPath), l1)
        l3 == sub("{TIMEBEGIN}", StampTok(a.realSystemStartTime), l2)
        l4 == sub("{TIMEWARMEND}", StampTok(a.systemWarmEndTime), l3)
        l5 == sub("{TIMESTATE}", StampTok(a.systemStateEndTime), l4)
        l6 == sub("{TIMEEND}", StampTok(a.systemEndTime), l5)
        l7 == sub("{TIMEBEGINLR}", StampTok(a.systemStartLRTime), l6)
        l8 == sub("{TIMESTEPLR}", Tok(a.LR_TimeStep), l7)
    IN  sub("{SYSTEMMODEL}", Tok(a.systemModel), l8)

\* the task directives: the QPE line is only ever commented, the QPF line is
\* rewritten either way
ToggleTask(line, lr) ==
    IF Contains(line, "task=Simulation_QPE")
    THEN (IF lr THEN <<Tok("#"), Tok("task=Simulation_QPE"), NL>> ELSE line)
    ELSE IF Contains(line, "task=Simulation_QPF")
         THEN (IF lr THEN <<Tok("task=Simulation_QPF"), NL>>
                     ELSE <<Tok("#"), Tok("task=Simulation_QPF"), NL>>)
         ELSE line

\* a warm-up-end line is commented when states were found
CommentWarmEnd_always(line, statesFound) ==
    IF statesFound /\ Contains(line, "TIME_WARMEND=")
    THEN <<Tok("#")>> \o line
    ELSE line

CommentWarmEnd(line, statesFound) ==
    IF statesFound /\ Contains(line, "TIME_WARMEND=")
    THEN (IF ~StartsWithHash(line) THEN <<Tok("#")>> \o line ELSE line)
    ELSE line

\* the body of the loop over the template's lines
render_line(line, a) ==
    CommentWarmEnd(ToggleTask(Substitute(line, a), a.LR_run), a.statesFound)

\* controlFile = tmpOutput + "WA_" + subdomain + "_" + systemModel + ".txt"
controlFilePath(a) == a.tmpOutput.dir \o <<"WA_" \o a.subdomain \o "_" \o a.systemModel \o ".txt">>

\* templatePath + template
templateFile(a) == a.templatePath \o <<a.template>>

\* the lines written for a template
render_lines(tpl, a) == [i \in 1..Len(tpl) |-> render_line(tpl[i], a)]

\* a renderer that leaves the output directories alone and appends to the
\* control file
write_control_file_append(files, a) ==
    append_file(files, controlFilePath(a), render_lines(files[templateFile(a)], a))

\* write_control_file: both output directories are removed and made again,
\* then the control file is written line by line from the template
write_control_file(files, a) ==
    LET cleaned == rmtree(rmtree(files, a.tmpOutput.dir), a.dataPath.dir)
    IN  write_file(cleaned, controlFilePath(a),
                   render_lines(cleaned[templateFile(a)], a))

-----------------------------------------------------------------------------
(* Configuration (Cuba_config.py) and the times the orchestrator derives *)

\* dataPath = "outputs/"; tmpOutput = dataPath + "tmp_output_" + systemModel + "/"
StdDataPath == [dir |-> <<"outputs">>, text |-> "outputs/"]
StdTmpOutput ==
    [dir |-> <<"outputs", "tmp_output_crest">>, text |-> "outputs/tmp_output_crest/"]
\* highres_dataPath = "outputs_25m/"; highres_tmpOutput = ... + "_25m/"
HrDataPath == [dir |-> <<"outputs_25m">>, text |-> "outputs_25m/"]
HrTmpOutput ==
    [dir |-> <<"outputs_25m", "tmp_output_crest_25m">>,
     text |-> "outputs_25m/tmp_output_crest_25m/"]

\* highres_threshold of the configuration, in tenths
Threshold == 10

TemplatePath == <<"templates">>
StdTemplateName == "ef5_control_template.txt"
HrTemplateName == "ef5_control_highRes_templeate.txt"

\* modelStates and highres_state_models of the configuration
StdModelStates == <<"crest_SM", "kwr_IR", "kwr_pCQ", "kwr_pOQ">>
HrModelStates == <<"crest_SM", "kwr_IR">>

\* systemStartTime = currentTime - 4.5 h, systemWarmEndTime = systemStateEndTime
\* = currentTime - 4 h, systemEndTime = currentTime + 6 h
StartLag == 270
WarmLag == 240
EndLead == 360

\* the arguments prepare_ef5 hands to write_control_file
RenderArgs(res, start, realStart, found, lr) ==
    LET currentTime == start + StartLag IN
    [tmpOutput |-> IF res = "std" THEN StdTmpOutput ELSE highres_tmpOutput,
     dataPath |-> IF res = "std" THEN StdDataPath ELSE highres_dataPath,
     subdomain |-> "Regional",
     systemModel |-> "crest",
     templatePath |-> TemplatePath,
     template |-> IF res = "std" THEN StdTemplateName ELSE HrTemplateName,
     statesPath |-> IF res = "std" THEN "states/" ELSE "statesHighRes/",
     realSystemStartTime |-> realStart,
     systemStartLRTime |-> currentTime,
     systemWarmEndTime |-> currentTime - WarmLag,
     systemStateEndTime |-> currentTime - WarmLag,
     systemEndTime |-> currentTime + EndLead,
     LR_TimeStep |-> "60u",
     LR_run |-> lr,
     statesFound |-> found]

\* what the last render was called with and what it left in the control file
Rendered(files, a) == [args |-> a, doc |-> files[controlFilePath(a)]]
NoRender == [args |-> <<>>, doc |-> <<>>]

\* the configuration of Cuba_config.py: no alert mails, the high-resolution
\* path wanted, with its own directories
ConfiguredCycle ==
    /\ run_highres = TRUE
    /\ highres_threshold = [set |-> TRUE, value |-> Threshold]
    /\ highres_tmpOutput = HrTmpOutput
    /\ highres_dataPath = HrDataPath

\* nothing sent, nothing called, the engine not started
CycleAtStart ==
    /\ mails = <<>>
    /\ steps = <<>>
    /\ engine = "idle"

CycleIdle ==
    /\ SEND_ALERTS = FALSE
    /\ alert_recipients = <<>>
    /\ ConfiguredCycle
    /\ CycleAtStart

-----------------------------------------------------------------------------
(* Templates *)

QpeLines == {<<Tok("task=Simulation_QPE"), NL>>,
             <<Tok("#"), Tok("task=Simulation_QPE"), NL>>}
QpfLines == {<<Tok("task=Simulation_QPF"), NL>>,
             <<Tok("#"), Tok("task=Simulation_QPF"), NL>>}
WarmEndLines ==
    {<<Tok("TIME_WARMEND="), Tok("{TIMEWARMEND}"), NL>>,
     <<Tok("#"), Tok("TIME_WARMEND="), Tok("{TIMEWARMEND}"), NL>>,
     <<Tok(" "), Tok("#"), Tok("TIME_WARMEND="), Tok("{TIMEWARMEND}"), NL>>}
\* a line of placeholders the renderer knows, and one with a placeholder it
\* has no value for
OtherLines ==
    {<<Tok("TIME_BEGIN="), Tok("{TIMEBEGIN}"), NL>>,
     <<Tok("OUTPUT="), Tok("{OUTPUTPATH}"), Tok("#"), Tok("{SYSTEMMODEL}"), NL>>,
     <<Tok("OBS="), Tok("{OBSPATH}"), NL>>}

\* a control template: the two task directives, a warm-up-end directive and
\* one more line
Templates ==
    {<<o, w, e, f>> : o \in OtherLines, w \in WarmEndLines, e \in QpeLines, f \in QpfLines}

\* the template of the standard run when only state resolution varies
PlainTemplate ==
    <<<<Tok("TIME_BEGIN="), Tok("{TIMEBEGIN}"), NL>>,
      <<Tok("TIME_WARMEND="), Tok("{TIMEWARMEND}"), NL>>,
      <<Tok("task=Simulation_QPE"), NL>>,
      <<Tok("#"), Tok("task=Simulation_QPF"), NL>>>>

\* templates of the high-resolution run
HrTemplates ==
    {<<<<Tok("TIME_WARMEND="), Tok("{TIMEWARMEND}"), NL>>,
       <<Tok("STATES="), Tok("{STATESPATH}"), NL>>,
       <<Tok("task=Simulation_QPE"), NL>>,
       <<Tok("task=Simulation_QPF"), NL>>>>,
     <<<<Tok("#"), Tok("TIME_WARMEND="), Tok("{TIMEWARMEND}"), NL>>,
       <<Tok("TIME_STATE="), Tok("{TIMESTATE}"), Tok("TIME_END="), Tok("{TIMEEND}"), NL>>,
       <<Tok("TIMESTEP_LR="), Tok("{TIMESTEPLR}"), Tok("{TIMEBEGINLR}"), NL>>,
       <<Tok("task=Simulation_QPE"), NL>>,
       <<Tok("#"), Tok("task=Simulation_QPF"), NL>>>>}

TemplateFiles(std, hr) ==
    [p \in {TemplatePath \o <<StdTemplateName>>, TemplatePath \o <<HrTemplateName>>} |->
        IF p = TemplatePath \o <<StdTemplateName>> THEN std ELSE hr]

-----------------------------------------------------------------------------
(* send_state_alerts *)

\* the branch send_state_alerts takes once alerts are enabled
Severity_failed_only(found, real, start) ==
    IF ~found THEN "failed" ELSE "none"
Severity(found, real, start) ==
    IF ~found THEN "failed"
    ELSE IF real # start THEN "warning"
    ELSE "none"

\* the calls of send_mail one call of send_state_alerts makes
send_state_alerts(found, real, start, enabled, recipients) ==
    LET sev == Severity(found, real, start)
    IN  IF ~enabled THEN <<>>
        ELSE IF sev = "none" THEN <<>>
        ELSE [i \in 1..Len(recipients) |-> [to |-> recipients[i], severity |-> sev]]

-----------------------------------------------------------------------------
(* State resolution followed by rendering: prepare_ef5 *)

DesiredTimes == {1470}

\* the candidate timestamps that may hold files
Grid(start) == {start - k * StepMinutes : k \in 0..MaxBack}

\* floors every quarter of an hour, from just above the desired time to one
\* step below the oldest file
Floors(start) == {start - j * 15 : j \in (0 - 1)..(2 * (MaxBack + 1))}

StateLists == {HrModelStates, <<>>}

Range(seq) == {seq[i] : i \in 1..Len(seq)}

InitPrepare ==
    /\ systemStartTime \in DesiredTimes
    /\ failTime \in Floors(systemStartTime)
    /\ modelStates \in StateLists
    /\ store \in [{state_path(s, t) : s \in Range(modelStates), t \in Grid(systemStartTime)}
                    -> {"absent", "empty", "data"}]
    /\ realSystemStartTime = systemStartTime
    /\ foundAllStates = FALSE
    /\ tested = <<>>
    /\ pc = "search"
    /\ fs = TemplateFiles(PlainTemplate, PlainTemplate)
    /\ LR_run = FALSE
    /\ out = NoRender
    /\ pin = NoRender
    /\ nRenders = 0
    /\ DaIdle
    /\ HrIdle
    /\ CycleIdle

\* while not foundAllStates and realSystemStartTime > failTime
LoopCondition_inclusive(found, real, fail) == ~found /\ real >= fail
LoopCondition(found, real, fail) == ~found /\ real > fail

\* realSystemStartTime -= timedelta(minutes=30)
StepBack_hour(real) == real - 2 * StepMinutes
StepBack(real) == real - StepMinutes

\* find_available_states as one call: the loop run to its end
RECURSIVE find_available_states(_, _, _, _)
find_available_states(st, states, real, fail) ==
    IF LoopCondition(FALSE, real, fail)
    THEN IF AllStatesPresent(st, states, real)
         THEN [found |-> TRUE, real |-> real]
         ELSE find_available_states(st, states, StepBack(real), fail)
    ELSE [found |-> FALSE, real |-> real]

\* one pass of the while loop of find_available_states
SearchStep ==
    /\ pc = "search"
    /\ LoopCondition(foundAllStates, realSystemStartTime, failTime)
    /\ foundAllStates' = AllStatesPresent(store, modelStates, realSystemStartTime)
    /\ realSystemStartTime' =
          IF foundAllStates' THEN realSystemStartTime
          ELSE StepBack(realSystemStartTime)
    /\ tested' = Append(tested, realSystemStartTime)
    /\ UNCHANGED <<store, modelStates, systemStartTime, failTime, pc>>
    /\ UNCHANGED renderVars
    /\ UNCHANGED daVars
    /\ UNCHANGED hrVars
    /\ UNCHANGED cycleVars

\* the loop condition fails: return foundAllStates, realSystemStartTime
SearchReturn ==
    /\ pc = "search"
    /\ ~LoopCondition(foundAllStates, realSystemStartTime, failTime)
    /\ pc' = "returned"
    /\ steps' = Append(steps, "find_available_states")
    /\ UNCHANGED statesVars
    /\ UNCHANGED renderVars
    /\ UNCHANGED daVars
    /\ UNCHANGED hrVars
    /\ UNCHANGED <<alertConfig, mails, engine, cycleConfig>>

\* prepare_ef5 after the search: the alerts are sent, then the control file
\* is written with the resolved time and the search flag; nothing else is
\* called before the return
PrepareWrite ==
    /\ pc = "returned"
    /\ mails' = mails \o send_state_alerts(foundAllStates, realSystemStartTime,
                                            systemStartTime, SEND_ALERTS,
                                            alert_recipients)
    /\ steps' = steps \o <<"send_state_alerts", "write_control_file">>
    /\ LET a == RenderArgs("std", systemStartTime, realSystemStartTime,
                           foundAllStates, LR_run)
       IN /\ fs' = write_control_file(fs, a)
          /\ out' = Rendered(fs', a)
    /\ nRenders' = nRenders + 1
    /\ pc' = "done"
    /\ UNCHANGED statesVars
    /\ UNCHANGED <<LR_run, pin>>
    /\ UNCHANGED daVars
    /\ UNCHANGED hrVars
    /\ UNCHANGED <<alertConfig, engine, cycleConfig>>

NextPrepare == SearchStep \/ SearchReturn \/ PrepareWrite

SpecPrepare == InitPrepare /\ [][NextPrepare]_vars

\* find_available_states is one sequential call: its loop keeps running
\* until the loop condition fails, and then it returns
SpecPrepareFair ==
    InitPrepare /\ [][NextPrepare]_vars /\ WF_vars(SearchStep) /\ WF_vars(SearchReturn)

\* the recipients of the configuration
Recipients == {<<>>, <<"fixer1">>, <<"fixer1", "fixer2">>}

\* state resolution with the alerts of the configuration on or off, for any
\* recipients: two state variables, files there or not
InitAlerts ==
    /\ systemStartTime \in DesiredTimes
    /\ failTime \in Floors(systemStartTime)
    /\ modelStates = HrModelStates
    /\ store \in [{state_path(s, t) : s \in Range(modelStates), t \in Grid(systemStartTime)}
                    -> {"absent", "data"}]
    /\ realSystemStartTime = systemStartTime
    /\ foundAllStates = FALSE
    /\ tested = <<>>
    /\ pc = "search"
    /\ fs = TemplateFiles(PlainTemplate, PlainTemplate)
    /\ LR_run = FALSE
    /\ out = NoRender
    /\ pin = NoRender
    /\ nRenders = 0
    /\ DaIdle
    /\ HrIdle
    /\ SEND_ALERTS \in BOOLEAN
    /\ alert_recipients \in Recipients
    /\ ConfiguredCycle
    /\ CycleAtStart

SpecAlerts == InitAlerts /\ [][NextPrepare]_vars

-----------------------------------------------------------------------------
(* Rendering alone: control documents of both resolutions, any templates *)

InitRender ==
    /\ systemStartTime \in DesiredTimes
    /\ failTime = systemStartTime
    /\ modelStates = <<>>
    /\ store = <<>>
    /\ realSystemStartTime = systemStartTime
    /\ foundAllStates = FALSE
    /\ tested = <<>>
    /\ pc = "render"
    /\ \E std \in Templates, hr \in HrTemplates : fs = TemplateFiles(std, hr)
    /\ LR_run \in BOOLEAN
    /\ out = NoRender
    /\ pin = NoRender
    /\ nRenders = 0
    /\ DaIdle
    /\ HrIdle
    /\ CycleIdle

\* one call of write_control_file, as prepare_ef5 makes it for the standard
\* or the high-resolution run; the render may be the one kept for comparison
Render(res, found, real) ==
    /\ pc = "render"
    /\ nRenders < MaxRenders
    /\ LET a == RenderArgs(res, systemStartTime, real, found, LR_run)
       IN /\ fs' = write_control_file(fs, a)
          /\ out' = Rendered(fs', a)
    /\ pin' \in IF pin = NoRender THEN {pin, out'} ELSE {pin}
    /\ nRenders' = nRenders + 1
    /\ UNCHANGED statesVars
    /\ UNCHANGED <<pc, LR_run>>
    /\ UNCHANGED daVars
    /\ UNCHANGED hrVars
    /\ UNCHANGED cycleVars

NextRender ==
    \E res \in {"std", "hr"}, found \in BOOLEAN,
       real \in {systemStartTime, systemStartTime - StepMinutes} :
        Render(res, found, real)

SpecRender == InitRender /\ [][NextRender]_vars

-----------------------------------------------------------------------------
(* Data assimilation: the series files and their timestamps *)

ReservoirIds == {"EMB2100002", "EMB2100004"}

\* DA_manual_path, DA_climatology_path, DA_consolidated_path
DaManualPath == "DA_Manual"
DaClimatologyPath == "DA_Climatology"
DaConsolidatedPath == "DA_Consolidated"

\* os.path.join(folder, f"{reservoir_id}_Vertimiento_Serie.csv")
series_path(folder, rid) == <<folder, rid \o "_Vertimiento_Serie.csv">>

\* the calendar of a common year; a time of the selector is a day of the year
DaysIn == <<31, 28, 31, 30, 31, 30, 31, 31, 30, 31, 30, 31>>
DaysBefore == <<0, 31, 59, 90, 120, 151, 181, 212, 243, 273, 304, 334>>

ValidDate(month, day) == month \in 1..12 /\ day \in 1..DaysIn[month]
DayOfYear(month, day) == DaysBefore[month] + day

\* a timestamp of a series file is the text "a/b/2023 00:00"
\* format='%m/%d/%Y %H:%M'
strptime_md(raw) ==
    IF ValidDate(raw.a, raw.b)
    THEN [ok |-> TRUE, t |-> DayOfYear(raw.a, raw.b)]
    ELSE [ok |-> FALSE, t |-> 0]

\* format='%d/%m/%Y %H:%M'
strptime_dm(raw) ==
    IF ValidDate(raw.b, raw.a)
    THEN [ok |-> TRUE, t |-> DayOfYear(raw.b, raw.a)]
    ELSE [ok |-> FALSE, t |-> 0]

\* one text read without a format: month first, day first when that fails
dateutil_parse(raw) ==
    IF strptime_md(raw).ok THEN strptime_md(raw) ELSE strptime_dm(raw)

\* one text read under a format, or without one
strptime(raw, format) ==
    IF format = "%m/%d/%Y %H:%M" THEN strptime_md(raw)
    ELSE IF format = "%d/%m/%Y %H:%M" THEN strptime_dm(raw)
         ELSE dateutil_parse(raw)

\* pd.to_datetime(column, format=...): every row must parse, or it raises
to_datetime(rows, format) ==
    LET parsed == [i \in 1..Len(rows) |-> strptime(rows[i].timestamp, format)]
    IN  [ok |-> \A i \in 1..Len(rows) : parsed[i].ok,
         ts |-> [i \in 1..Len(rows) |-> parsed[i].t]]

\* pd.to_datetime(column): row by row with the older pandas, with the format
\* guessed from the first row with the newer
to_datetime_any(rows, elementwise) ==
    IF elementwise THEN to_datetime(rows, "")
    ELSE IF strptime_md(rows[1].timestamp).ok THEN to_datetime(rows, "%m/%d/%Y %H:%M")
         ELSE to_datetime(rows, "%d/%m/%Y %H:%M")

\* the chain of attempts: month first, day first, no format
parse_timestamps(rows, elementwise) ==
    IF to_datetime(rows, "%m/%d/%Y %H:%M").ok THEN to_datetime(rows, "%m/%d/%Y %H:%M")
    ELSE IF to_datetime(rows, "%d/%m/%Y %H:%M").ok THEN to_datetime(rows, "%d/%m/%Y %H:%M")
         ELSE to_datetime_any(rows, elementwise)

\* dt.strftime('%m/%d/%Y %H:%M')
MonthOf(t) == CHOOSE m \in 1..12 : DaysBefore[m] < t /\ t <= DaysBefore[m] + DaysIn[m]
strftime_md(t) == [a |-> MonthOf(t), b |-> t - DaysBefore[MonthOf(t)]]

SeqMin(ts) == CHOOSE x \in Range(ts) : \A y \in Range(ts) : x <= y
SeqMax(ts) == CHOOSE x \in Range(ts) : \A y \in Range(ts) : x >= y

-----------------------------------------------------------------------------
(* Data assimilation: the selector *)

WhiteSpace == {" ", "\n"}

RECURSIVE lstrip(_)
lstrip(line) ==
    IF line # <<>> /\ Head(line).t \in WhiteSpace THEN lstrip(Tail(line)) ELSE line

RECURSIVE rstrip(_)
rstrip(line) ==
    IF line # <<>> /\ line[Len(line)].t \in WhiteSpace
    THEN rstrip(SubSeq(line, 1, Len(line) - 1))
    ELSE line

strip(line) == rstrip(lstrip(line))

\* the lines read_reservoir_list keeps: not empty, not a comment
KeptLine(line) == strip(line) # <<>> /\ Head(strip(line)).t # "#"

\* read_reservoir_list, the list file being there
read_reservoir_list(lines) ==
    LET kept == SelectSeq(lines, KeptLine)
    IN  [i \in 1..Len(kept) |-> strip(kept[i])[1].t]

\* data_start <= start_ts and data_end >= end_ts
Covers_strict(data_start, data_end, start_ts, end_ts) ==
    data_start < start_ts /\ data_end > end_ts
Covers(data_start, data_end, start_ts, end_ts) ==
    data_start <= start_ts /\ data_end >= end_ts

\* check_manual_da_availability: the first component of its result
check_manual_da_availability_lenient(files, rid, manual_path, start, end, elementwise) ==
    LET file_path == series_path(manual_path, rid)
    IN  IF file_path \notin DOMAIN files THEN FALSE
        ELSE TRUE
check_manual_da_availability(files, rid, manual_path, start, end, elementwise) ==
    LET file_path == series_path(manual_path, rid)
    IN  IF file_path \notin DOMAIN files THEN FALSE
        ELSE LET df == parse_timestamps(files[file_path], elementwise)
             IN  IF ~df.ok THEN FALSE
                 ELSE Covers(SeqMin(df.ts), SeqMax(df.ts), start, end)

\* prepare_da_paths
prepare_da_paths(files, rs, manual_path, climatology_path, start, end, elementwise) ==
    [rid \in Range(rs) |->
        IF check_manual_da_availability(files, rid, manual_path, start, end, elementwise)
        THEN series_path(manual_path, rid)
        ELSE series_path(climatology_path, rid)]

\* (df['datetime'] >= start_ts) & (df['datetime'] <= end_ts)
InWindow_open(t, start, end) == t > start /\ t < end
InWindow(t, start, end) == t >= start /\ t <= end

Indices(n) == [i \in 1..n |-> i]

\* the loop body of create_consolidated_da_csv for one reservoir: ok is false
\* when the reservoir is skipped (file not found, or an error while reading)
reservoir_frame(files, rid, path_map, start, end, elementwise) ==
    LET obs_file == path_map[rid]
    IN  IF obs_file \notin DOMAIN files THEN [ok |-> FALSE, rows |-> <<>>]
        ELSE LET df == parse_timestamps(files[obs_file], elementwise)
                 keep == SelectSeq(Indices(Len(files[obs_file])),
                                   LAMBDA i : InWindow(df.ts[i], start, end))
             IN  IF ~df.ok THEN [ok |-> FALSE, rows |-> <<>>]
                 ELSE [ok |-> TRUE,
                       rows |-> [k \in 1..Len(keep) |->
                                   [reservoir_id |-> rid,
                                    timestamp_formatted |-> strftime_md(df.ts[keep[k]]),
                                    value |-> files[obs_file][keep[k]].value]]]

\* all_data: the frames of the reservoirs that were not skipped, in list order
RECURSIVE all_data(_, _, _, _, _, _)
all_data(files, rs, path_map, start, end, elementwise) ==
    IF rs = <<>> THEN <<>>
    ELSE LET f == reservoir_frame(files, Head(rs), path_map, start, end, elementwise)
         IN  (IF f.ok THEN <<f.rows>> ELSE <<>>)
                \o all_data(files, Tail(rs), path_map, start, end, elementwise)

\* pd.concat(all_data, ignore_index=True)
RECURSIVE concat_last_first(_)
concat_last_first(frames) ==
    IF frames = <<>> THEN <<>> ELSE concat_last_first(Tail(frames)) \o Head(frames)
RECURSIVE concat(_)
concat(frames) == IF frames = <<>> THEN <<>> ELSE Head(frames) \o concat(Tail(frames))

\* f"da.observations.{timestamp_str}.csv"
consolidated_name(timestamp_str) == "da.observations." \o timestamp_str \o ".csv"

TimestampStr == "20230609_0000"
OldTimestampStr == "20230608_2300"

\* glob.glob(os.path.join(output_path, "da.observations.*.csv"))
glob(dir) ==
    {n \in DOMAIN dir :
        \E s \in {TimestampStr, OldTimestampStr} : n = consolidated_name(s)}

\* os.remove of every old consolidated file
remove_old_files_none(dir) == dir
remove_old_files(dir) == [n \in DOMAIN dir \ glob(dir) |-> dir[n]]

\* consolidated_df.to_csv(consolidated_path, index=False, header=False)
to_csv(dir, name, table) ==
    [n \in DOMAIN dir \cup {name} |-> IF n = name THEN table ELSE dir[n]]

-----------------------------------------------------------------------------
(* Data assimilation: process_da_for_simulation *)

ListLine(rid) == <<Tok(rid), NL>>

\* reservoir list files: empty, one reservoir, two reservoirs in either
\* order, with a comment, a blank line and padding
ListFiles ==
    {<<>>,
     <<ListLine("EMB2100002")>>,
     <<<<Tok("#"), Tok("reservoirs"), NL>>,
       <<Tok(" "), Tok("EMB2100002"), Tok(" "), NL>>,
       <<NL>>,
       ListLine("EMB2100004")>>,
     <<ListLine("EMB2100004"), ListLine("EMB2100002")>>}

\* the texts a row of a series file may carry as its timestamp: 01/02, 02/01,
\* 13/01, 01/13 and one that is no date
RawTimestamps ==
    {[a |-> 1, b |-> 2], [a |-> 2, b |-> 1], [a |-> 13, b |-> 1], [a |-> 1, b |-> 13],
     [a |-> 0, b |-> 0]}

WindowTimes == {2, 13, 32}

\* the four series files two reservoirs may have
SeriesPaths ==
    <<series_path(DaManualPath, "EMB2100002"), series_path(DaClimatologyPath, "EMB2100002"),
      series_path(DaManualPath, "EMB2100004"), series_path(DaClimatologyPath, "EMB2100004")>>
SeriesOwner == <<"EMB2100002", "EMB2100002", "EMB2100004", "EMB2100004">>

\* a file of raw timestamps; the value of a row is its place in the file
SeriesFile(raws) == [i \in 1..Len(raws) |-> [timestamp |-> raws[i], value |-> i]]

\* a series file needs the format-less attempt
NeedsFallback(rows) ==
    ~to_datetime(rows, "%m/%d/%Y %H:%M").ok /\ ~to_datetime(rows, "%d/%m/%Y %H:%M").ok

\* a file of the consolidated folder that is no consolidated table
OtherFile == ".gitkeep"

OldTable ==
    <<[reservoir_id |-> "EMB2100002", timestamp_formatted |-> [a |-> 1, b |-> 1], value |-> 1]>>

InitDA ==
    /\ systemStartTime \in DesiredTimes
    /\ failTime = systemStartTime
    /\ modelStates = <<>>
    /\ store = <<>>
    /\ realSystemStartTime = systemStartTime
    /\ foundAllStates = FALSE
    /\ tested = <<>>
    /\ fs = <<>>
    /\ LR_run = FALSE
    /\ out = NoRender
    /\ pin = NoRender
    /\ nRenders = 0
    /\ pc = "da_start"
    /\ daListFile \in {[exists |-> FALSE, lines |-> <<>>]}
                        \cup {[exists |-> TRUE, lines |-> l] : l \in ListFiles}
    /\ start_time \in WindowTimes
    /\ end_time \in {t \in WindowTimes : start_time <= t}
    /\ consolidatedDir \in
          {<<>>,
           [n \in {consolidated_name(OldTimestampStr)} |-> OldTable],
           [n \in {consolidated_name(TimestampStr), OtherFile} |->
               IF n = OtherFile THEN <<>> ELSE OldTable]}
    /\ \E n \in [1..4 -> 0..MaxRows] :
          /\ n[1] + n[2] + n[3] + n[4] <= MaxRows
          /\ \A k \in 1..4 :
                n[k] > 0 => SeriesOwner[k] \in Range(read_reservoir_list(daListFile.lines))
          /\ \E c1 \in [1..n[1] -> RawTimestamps], c2 \in [1..n[2] -> RawTimestamps],
                c3 \in [1..n[3] -> RawTimestamps], c4 \in [1..n[4] -> RawTimestamps] :
                daFiles = [p \in {SeriesPaths[k] : k \in {j \in 1..4 : n[j] > 0}} |->
                              SeriesFile(IF p = SeriesPaths[1] THEN c1
                                         ELSE IF p = SeriesPaths[2] THEN c2
                                         ELSE IF p = SeriesPaths[3] THEN c3 ELSE c4)]
    /\ elementwiseDates \in
          IF \E p \in DOMAIN daFiles : NeedsFallback(daFiles[p]) THEN BOOLEAN ELSE {FALSE}
    /\ reservoirs = <<>>
    /\ da_path_map = <<>>
    /\ consolidated_csv_path = <<>>
    /\ HrIdle
    /\ CycleIdle

\* read_reservoir_list raises FileNotFoundError: nothing else is done
ReadListMissing ==
    /\ pc = "da_start"
    /\ ~daListFile.exists
    /\ pc' = "da_raised"
    /\ UNCHANGED <<statesVars, renderVars, daVars>>
    /\ UNCHANGED hrVars
    /\ UNCHANGED cycleVars

ReadList ==
    /\ pc = "da_start"
    /\ daListFile.exists
    /\ reservoirs' = read_reservoir_list(daListFile.lines)
    /\ pc' = "da_list"
    /\ UNCHANGED <<statesVars, renderVars, daInputs>>
    /\ UNCHANGED <<consolidatedDir, da_path_map, consolidated_csv_path>>
    /\ UNCHANGED hrVars
    /\ UNCHANGED cycleVars

PrepareDaPaths ==
    /\ pc = "da_list"
    /\ da_path_map' = prepare_da_paths(daFiles, reservoirs, DaManualPath, DaClimatologyPath,
                                       start_time, end_time, elementwiseDates)
    /\ pc' = "da_paths"
    /\ UNCHANGED <<statesVars, renderVars, daInputs>>
    /\ UNCHANGED <<consolidatedDir, reservoirs, consolidated_csv_path>>
    /\ UNCHANGED hrVars
    /\ UNCHANGED cycleVars

\* create_consolidated_da_csv: the old consolidated files are removed, then
\* the table is written when at least one reservoir was not skipped
CreateConsolidated ==
    /\ pc = "da_paths"
    /\ LET frames == all_data(daFiles, reservoirs, da_path_map, start_time, end_time,
                              elementwiseDates)
           name == consolidated_name(TimestampStr)
       IN  IF frames # <<>>
           THEN /\ consolidatedDir' =
                      to_csv(remove_old_files(consolidatedDir), name, concat(frames))
                /\ consolidated_csv_path' = <<DaConsolidatedPath, name>>
           ELSE /\ consolidatedDir' = remove_old_files(consolidatedDir)
                /\ consolidated_csv_path' = <<>>
    /\ pc' = "da_done"
    /\ UNCHANGED <<statesVars, renderVars, daInputs>>
    /\ UNCHANGED <<reservoirs, da_path_map>>
    /\ UNCHANGED hrVars
    /\ UNCHANGED cycleVars

NextDA == ReadListMissing \/ ReadList \/ PrepareDaPaths \/ CreateConsolidated

SpecDA == InitDA /\ [][NextDA]_vars

-----------------------------------------------------------------------------
(* High-resolution gauge selection: highres_utils *)

\* f"{subdomain}_{highres_resolution_tag}"
GaugeNamePrefix == "Regional_25m"

StartMarker == "#---Start Gauge-Basin Block"
EndMarker == "#---End Gauge-Basin Block"
StartLine == <<Tok(StartMarker), NL>>
EndLine == <<Tok(EndMarker), NL>>
BlankLine == <<NL>>

\* a cell of the output raster: masked (no data) or not, and a number in
\* tenths, a NaN or an infinity
NumCell(masked, x) == [masked |-> masked, kind |-> "num", x |-> x]
NanCell == [masked |-> FALSE, kind |-> "nan", x |-> 0]
InfCell == [masked |-> FALSE, kind |-> "inf", x |-> 0]

\* np.isfinite(values)
isfinite(cell) == cell.kind = "num"

\* values >= threshold
AtLeast(cell, threshold) ==
    cell.kind = "inf" \/ (cell.kind = "num" /\ cell.x >= threshold)

\* exceed_mask = valid_mask & np.isfinite(values) & (values >= threshold)
exceed_mask_ignores_nodata(cell, threshold) ==
    isfinite(cell) /\ AtLeast(cell, threshold)
exceed_mask(cell, threshold) ==
    ~cell.masked /\ isfinite(cell) /\ AtLeast(cell, threshold)

\* a cell of the mask raster
MaskCell(masked, v) == [masked |-> masked, v |-> v]

\* data.compressed(): the values of the cells that are not masked
compressed(data) ==
    LET keep == SelectSeq(data, LAMBDA c : ~c.masked)
    IN  [i \in 1..Len(keep) |-> keep[i].v]

\* int(round(float(val))) of a value of an integer mask raster
round_int(val) == val

\* the identifiers one footprint adds: np.unique, then ivalue >= 0
footprint_ids_all(data) == {round_int(v) : v \in Range(compressed(data))}
footprint_ids(data) == {round_int(v) : v \in {w \in Range(compressed(data)) : round_int(w) >= 0}}

\* list(gauge_ids): an order the set does not promise
RECURSIVE listed_descending(_)
listed_descending(S) ==
    IF S = {} THEN <<>>
    ELSE LET m == CHOOSE x \in S : \A y \in S : x >= y
         IN  <<m>> \o listed_descending(S \ {m})

\* sorted(gauge_ids)
RECURSIVE sorted(_)
sorted(S) ==
    IF S = {} THEN <<>>
    ELSE LET m == CHOOSE x \in S : \A y \in S : x <= y
         IN  <<m>> \o sorted(S \ {m})

\* the cells of the band that exceed the threshold: np.where(exceed_mask)
hot_cells(band, threshold) ==
    SelectSeq(Indices(Len(band)), LAMBDA i : exceed_mask(band[i], threshold))

\* _collect_gauges_from_mask, the mask file being there: footprints[i] is what
\* the mask raster holds under cell i of the output raster
_collect_gauges_from_mask(footprints, rows) ==
    sorted(UNION {footprint_ids(footprints[rows[k]]) : k \in 1..Len(rows)})

\* _extract_hot_gauges: raised is true when the mask file has to be read and
\* is not there
_extract_hot_gauges(band, mask, threshold) ==
    LET rows == hot_cells(band, threshold)
    IN  IF rows = <<>> THEN [raised |-> FALSE, gauge_ids |-> <<>>]
        ELSE IF ~mask.exists THEN [raised |-> TRUE, gauge_ids |-> <<>>]
             ELSE [raised |-> FALSE,
                   gauge_ids |-> _collect_gauges_from_mask(mask.footprints, rows)]

\* a line of the gauge list file: "[Gauge <id>] <rest>", the rest told
\* apart by a number
GaugeLine(id, rest) == <<[t |-> "[Gauge]", n |-> id], [t |-> "cellx=", n |-> rest], NL>>

\* re.match(r"\[Gauge\s+(\d+)\](.*)", line) on a stripped line that starts with "[Gauge"
IsGaugeLine(line) == strip(line) # <<>> /\ Head(strip(line)).t = "[Gauge]"

\* _load_gauge_lookup, the file being there: the last line of an identifier wins
_load_gauge_lookup(lines) ==
    LET at == {i \in 1..Len(lines) : IsGaugeLine(lines[i])}
        last(g) == CHOOSE i \in at :
                      /\ Head(strip(lines[i])).n = g
                      /\ \A j \in at : Head(strip(lines[j])).n = g => j <= i
    IN  [g \in {Head(strip(lines[i])).n : i \in at} |-> strip(lines[last(g)])]

\* _reindex_gauge_line: the first "[Gauge <n>]" becomes "[Gauge <new_index>]"
_reindex_gauge_line(raw_line, new_index) ==
    <<[t |-> "[Gauge]", n |-> new_index]>> \o Tail(raw_line)

\* the gauge lines of the block: enumerate(gauge_ids) numbers every
\* identifier, the ones without a lookup entry are passed over
RECURSIVE reindexed_lines(_, _, _)
reindexed_lines(gauge_ids, gauge_lookup, new_idx) ==
    IF gauge_ids = <<>> THEN <<>>
    ELSE (IF Head(gauge_ids) \in DOMAIN gauge_lookup
          THEN <<_reindex_gauge_line(gauge_lookup[Head(gauge_ids)], new_idx)>>
          ELSE <<>>)
            \o reindexed_lines(Tail(gauge_ids), gauge_lookup, new_idx + 1)

\* "# gauge=<prefix>_<gid> ..." over gauge_ids
NamesLine(gauge_ids, gauge_name_prefix) ==
    <<Tok("#")>>
        \o [k \in 1..Len(gauge_ids) |->
              [t |-> "gauge=" \o gauge_name_prefix \o "_", n |-> gauge_ids[k]]]
        \o <<NL>>

\* "gauge=0 gauge=1 ..." over range(len(reindexed_lines))
IndicesLine(count) == [k \in 1..count |-> [t |-> "gauge=", n |-> k - 1]] \o <<NL>>

\* _render_block_text: the lines of the block, each with its line end
_render_block_text(gauge_ids, gauge_lookup, gauge_name_prefix) ==
    LET gauge_lines == reindexed_lines(gauge_ids, gauge_lookup, 0)
    IN  <<StartLine, BlankLine>>
            \o (IF gauge_lines # <<>>
                THEN [k \in 1..Len(gauge_lines) |-> gauge_lines[k] \o <<NL>>]
                        \o <<BlankLine, <<Tok("[Basin 0]"), NL>>>>
                        \o <<NamesLine(gauge_ids, gauge_name_prefix)>>
                        \o <<IndicesLine(Len(gauge_lines)), BlankLine>>
                ELSE <<>>)
            \o <<EndLine>>

\* "#---Start Gauge-Basin Block" not in template
HasStartMarker(template) == \E i \in 1..Len(template) : Contains(template[i], StartMarker)
HasBothMarkers(template) ==
    /\ HasStartMarker(template)
    /\ \E i \in 1..Len(template) : Contains(template[i], EndMarker)

FirstStart(template) ==
    CHOOSE i \in 1..Len(template) :
        /\ Contains(template[i], StartMarker)
        /\ \A j \in 1..(i - 1) : ~Contains(template[j], StartMarker)

\* the end marker GAUGE_BLOCK_PATTERN stops at: the first one after the start
EndsAfter(template, s) == {e \in (s + 1)..Len(template) : Contains(template[e], EndMarker)}
FirstEnd(template, s) ==
    CHOOSE e \in EndsAfter(template, s) : \A j \in EndsAfter(template, s) : e <= j

\* GAUGE_BLOCK_PATTERN.sub(block_text, template, count=1): the text from the
\* first start marker to the next end marker is replaced; the line end of the
\* old end marker stays behind the line end block_text closes with
block_sub(block, template) ==
    IF EndsAfter(template, FirstStart(template)) = {} THEN template
    ELSE SubSeq(template, 1, FirstStart(template) - 1)
            \o block \o <<BlankLine>>
            \o SubSeq(template, FirstEnd(template, FirstStart(template)) + 1, Len(template))

\* _update_template_block: raised is true for the ValueError, written is
\* true when the template file has been written
_update_template_block(template, block) ==
    IF ~HasStartMarker(template)
    THEN [raised |-> TRUE, written |-> FALSE, lines |-> template]
    ELSE [raised |-> FALSE, written |-> TRUE, lines |-> block_sub(block, template)]

\* prepare_highres_control: what it returns (gauge_ids) or that it raised,
\* and the template file after it
prepare_highres_control(raster, mask, gauge_list, template, threshold, prefix) ==
    LET unchanged(r, ids) == [raised |-> r, gauge_ids |-> ids,
                              written |-> FALSE, template |-> template.lines]
        hot == _extract_hot_gauges(raster.band, mask, threshold.value)
        block == _render_block_text(hot.gauge_ids, _load_gauge_lookup(gauge_list.lines),
                                    prefix)
        upd == _update_template_block(template.lines, block)
    IN  IF ~threshold.set THEN unchanged(TRUE, <<>>)
        ELSE IF ~raster.exists THEN unchanged(FALSE, <<>>)
        ELSE IF hot.raised THEN unchanged(TRUE, <<>>)
        ELSE IF ~gauge_list.exists \/ ~template.exists THEN unchanged(TRUE, <<>>)
        ELSE IF upd.raised THEN unchanged(TRUE, <<>>)
        ELSE [raised |-> FALSE, gauge_ids |-> hot.gauge_ids,
              written |-> TRUE, template |-> upd.lines]

-----------------------------------------------------------------------------
(* High-resolution gauge selection: the orchestrator's high-resolution step *)

\* cells of the output raster: no data with a high value, below, on and
\* above the threshold, NaN, infinity
RasterCells ==
    {NumCell(TRUE, 20), NumCell(FALSE, 5), NumCell(FALSE, 10), NumCell(FALSE, 20),
     NanCell, InfCell}

\* cells of the mask raster: a negative sentinel, two gauges, a masked cell
MaskCells ==
    {MaskCell(FALSE, 0 - 1), MaskCell(FALSE, 3), MaskCell(FALSE, 7), MaskCell(TRUE, 9)}

Unmasked(vs) == [i \in 1..Len(vs) |-> MaskCell(FALSE, vs[i])]

\* chosen rasters with their footprints: cells [0.5, 2.0, 0.9] over mask
\* values {3, 7, 3}; no cell qualifies; three gauges from two cells; one
\* gauge beside a sentinel; a qualifying cell over sentinels only
ChosenRasters ==
    {[band |-> <<NumCell(FALSE, 5), NumCell(FALSE, 20), NumCell(FALSE, 9)>>,
      footprints |-> <<<<>>, Unmasked(<<3, 7, 3>>), <<>>>>],
     [band |-> <<NumCell(FALSE, 5), NumCell(TRUE, 20)>>,
      footprints |-> <<Unmasked(<<3>>), Unmasked(<<7>>)>>],
     [band |-> <<NumCell(FALSE, 20), NumCell(FALSE, 10)>>,
      footprints |-> <<Unmasked(<<7, 3>>), Unmasked(<<9, 3>>)>>],
     [band |-> <<NumCell(FALSE, 20)>>,
      footprints |-> <<Unmasked(<<0 - 1, 3>>)>>],
     [band |-> <<NumCell(FALSE, 20)>>,
      footprints |-> <<Unmasked(<<0 - 1>>)>>]}

GaugeIds == {3, 7, 9}

\* gauge list files: one line for each identifier of a set, in ascending order
GaugeListOf(S) == [k \in 1..Len(sorted(S)) |-> GaugeLine(sorted(S)[k], 10 * sorted(S)[k])]

\* a gauge list file with a comment, a padded line, a line that starts with
\* "[Gauge" and has no number, and an identifier listed twice
MessyGaugeList ==
    <<<<Tok("#"), Tok("gauges"), NL>>,
      <<Tok(" ")>> \o GaugeLine(3, 30),
      <<Tok("[Gauge x]"), NL>>,
      <<NL>>,
      GaugeLine(7, 70),
      GaugeLine(3, 31)>>

GaugeLists == {GaugeListOf(S) : S \in SUBSET GaugeIds} \cup {MessyGaugeList}

HeadLine == <<Tok("[Basic]"), NL>>
TailLine == <<Tok("task=Simulation_QPE"), NL>>
OldGaugeLine == GaugeLine(0, 990)

\* high-resolution templates: with a block, without the end marker, without
\* the start marker, without any marker, with two blocks behind a stray end
BlockTemplates ==
    {<<HeadLine, StartLine, OldGaugeLine, EndLine, TailLine>>,
     <<HeadLine, StartLine, OldGaugeLine, TailLine>>,
     <<HeadLine, OldGaugeLine, EndLine, TailLine>>,
     <<HeadLine, TailLine>>,
     <<EndLine, StartLine, OldGaugeLine, EndLine, HeadLine, StartLine, EndLine>>}

MinGauges == {0, 1, 2, 3}

\* which of the mask grid, the gauge list and the template are there: all,
\* or all but one
Prerequisites ==
    {<<TRUE, TRUE, TRUE>>, <<FALSE, TRUE, TRUE>>, <<TRUE, FALSE, TRUE>>, <<TRUE, TRUE, FALSE>>}

\* every raster of two cells over every mask of at most MaxMask cells, with
\* a complete or an incomplete gauge list and a template with a block
InitAllRasters ==
    /\ \E band \in [{1, 2} -> RasterCells] :
          maxunitq = [exists |-> TRUE, band |-> band]
    /\ \E n1 \in 0..MaxMask :
          \E n2 \in 0..(MaxMask - n1) :
             \E f1 \in [1..n1 -> MaskCells], f2 \in [1..n2 -> MaskCells] :
                maskgrid = [exists |-> TRUE, footprints |-> <<f1, f2>>]
    /\ gaugeList \in {[exists |-> TRUE, lines |-> GaugeListOf(S)] : S \in {{3, 7}, {3}}}
    /\ hrTemplate = [exists |-> TRUE,
                     lines |-> <<HeadLine, StartLine, OldGaugeLine, EndLine, TailLine>>]
    /\ highres_min_gauges = 1

\* the chosen rasters, there or not, with every gauge list, template,
\* minimum and set of prerequisites
InitAllTemplates ==
    /\ \E r \in ChosenRasters, x \in BOOLEAN, p \in Prerequisites :
          /\ maxunitq = [exists |-> x, band |-> r.band]
          /\ maskgrid = [exists |-> p[1], footprints |-> r.footprints]
          /\ \E l \in GaugeLists : gaugeList = [exists |-> p[2], lines |-> l]
          /\ \E t \in BlockTemplates : hrTemplate = [exists |-> p[3], lines |-> t]
    /\ highres_min_gauges \in MinGauges

InitHighRes ==
    /\ systemStartTime \in DesiredTimes
    /\ failTime = systemStartTime
    /\ modelStates = <<>>
    /\ store = <<>>
    /\ realSystemStartTime = systemStartTime
    /\ foundAllStates = FALSE
    /\ tested = <<>>
    /\ fs = <<>>
    /\ LR_run = FALSE
    /\ out = NoRender
    /\ pin = NoRender
    /\ nRenders = 0
    /\ DaIdle
    /\ pc = "hr_start"
    /\ (InitAllRasters \/ InitAllTemplates)
    /\ HrOutputsIdle
    /\ CycleIdle

\* the prerequisites of the orchestrator: the rerun is skipped when the mask
\* grid, the gauge list or the template is missing
SkipForPrerequisites ==
    /\ pc = "hr_start"
    /\ ~maskgrid.exists \/ ~gaugeList.exists \/ ~hrTemplate.exists
    /\ pc' = "hr_skipped"
    /\ UNCHANGED <<statesVars, renderVars, daVars, hrVars>>
    /\ UNCHANGED cycleVars

\* prepare_highres_control called outside a try: an exception ends the cycle
PrepareHighresControl_uncaught ==
    /\ pc = "hr_start"
    /\ maskgrid.exists /\ gaugeList.exists /\ hrTemplate.exists
    /\ LET r == prepare_highres_control(maxunitq, maskgrid, gaugeList, hrTemplate,
                                        highres_threshold, GaugeNamePrefix)
       IN  /\ selection' = [returned |-> ~r.raised, gauge_ids |-> r.gauge_ids]
           /\ hrTemplate' = [hrTemplate EXCEPT !.lines = r.template]
           /\ templateWritten' = r.written
           /\ pc' = IF r.raised THEN "aborted" ELSE "hr_selected"
    /\ UNCHANGED <<statesVars, renderVars, daVars>>
    /\ UNCHANGED <<maxunitq, maskgrid, gaugeList, highres_min_gauges, hrPath>>
    /\ UNCHANGED cycleVars

\* prepare_highres_control inside the orchestrator's try: an exception
\* leaves selection at None
PrepareHighresControl ==
    /\ pc = "hr_start"
    /\ maskgrid.exists /\ gaugeList.exists /\ hrTemplate.exists
    /\ LET r == prepare_highres_control(maxunitq, maskgrid, gaugeList, hrTemplate,
                                        highres_threshold, GaugeNamePrefix)
       IN  /\ selection' = [returned |-> ~r.raised, gauge_ids |-> r.gauge_ids]
           /\ hrTemplate' = [hrTemplate EXCEPT !.lines = r.template]
           /\ templateWritten' = r.written
    /\ pc' = "hr_selected"
    /\ UNCHANGED <<statesVars, renderVars, daVars>>
    /\ UNCHANGED <<maxunitq, maskgrid, gaugeList, highres_min_gauges, hrPath>>
    /\ UNCHANGED cycleVars

Max(a, b) == IF a >= b THEN a ELSE b

\* selection.count if selection else 0
selected_count(sel) == IF sel.returned THEN Len(sel.gauge_ids) ELSE 0

\* selection and selected_count >= max(1, highres_min_gauges)
RerunGate(sel, min_gauges) ==
    sel.returned /\ selected_count(sel) >= Max(1, min_gauges)

\* _sync_highres_states into a fresh directory: the files of the listed
\* states are copied as they are
_sync_highres_states(st, state_names) ==
    [p \in {q \in DOMAIN st : q[1] \in Range(state_names) /\ st[q] # "absent"} |-> st[p]]

\* os.path.join(tmpOutput, f"maxunitq.{output_timestamp_str}.tif")
maxunitq_path == StdTmpOutput.dir \o <<"maxunitq.timestamp.tif">>

\* the high-resolution path up to the engine: the states are synced, then
\* prepare_ef5 resolves the high-resolution states, sends the alerts and
\* renders the (rewritten) high-resolution template into highres_tmpOutput
StartHighRes ==
    /\ pc = "hr_selected"
    /\ RerunGate(selection, highres_min_gauges)
    /\ LET hr == find_available_states(_sync_highres_states(store, HrModelStates),
                                       HrModelStates, systemStartTime, failTime)
           a == RenderArgs("hr", systemStartTime, hr.real, hr.found, LR_run)
           files == write_file(fs, templateFile(a), hrTemplate.lines)
       IN  /\ mails' = mails \o send_state_alerts(hr.found, hr.real, systemStartTime,
                                                   SEND_ALERTS, alert_recipients)
           /\ fs' = write_control_file(files, a)
           /\ out' = Rendered(fs', a)
           /\ maxunitq' = [maxunitq EXCEPT !.exists =
                              /\ @
                              /\ ~IsPrefix(a.tmpOutput.dir, maxunitq_path)
                              /\ ~IsPrefix(a.dataPath.dir, maxunitq_path)]
    /\ steps' = steps \o <<"find_available_states", "send_state_alerts",
                            "write_control_file">>
    /\ nRenders' = nRenders + 1
    /\ hrPath' = <<"_sync_highres_states", "prepare_ef5">>
    /\ pc' = "hr_rerun"
    /\ UNCHANGED <<statesVars, daVars, LR_run, pin>>
    /\ UNCHANGED <<maskgrid, gaugeList, hrTemplate, highres_min_gauges,
                   selection, templateWritten>>
    /\ UNCHANGED <<alertConfig, engine, cycleConfig>>

\* run_ef5_simulation(..., resolution_tag=highres_resolution_tag): the
\* function takes no such argument, the call raises TypeError before its
\* body runs and nothing catches it
RunHighRes ==
    /\ pc = "hr_rerun"
    /\ hrPath' = Append(hrPath, "run_ef5_simulation")
    /\ pc' = "aborted"
    /\ UNCHANGED <<statesVars, renderVars, daVars>>
    /\ UNCHANGED <<maxunitq, maskgrid, gaugeList, hrTemplate, highres_min_gauges,
                   selection, templateWritten>>
    /\ UNCHANGED cycleVars

SkipHighRes ==
    /\ pc = "hr_selected"
    /\ ~RerunGate(selection, highres_min_gauges)
    /\ pc' = "hr_norerun"
    /\ UNCHANGED <<statesVars, renderVars, daVars, hrVars>>
    /\ UNCHANGED cycleVars

NextHighRes ==
    SkipForPrerequisites \/ PrepareHighresControl \/ StartHighRes \/ SkipHighRes
        \/ RunHighRes

SpecHighRes == InitHighRes /\ [][NextHighRes]_vars

-----------------------------------------------------------------------------
(* One cycle of the orchestrator from prepare_ef5 on *)

\* the raster as the engine writes it, before it is renamed
EngineOutput == StdTmpOutput.dir \o <<"maxunitq.raw.tif">>

\* what the file system holds for a raster; its cells are held in maxunitq
RasterFile == <<<<Tok("raster"), NL>>>>

\* os.rename(latest, new_name)
rename(files, from, to) ==
    [p \in (DOMAIN files \ {from}) \cup {to} |->
        IF p = to THEN files[from] ELSE files[p]]

\* state directories of the standard run: every file, no file, the files of
\* the high-resolution states only, every file but those of the desired time
CycleStores(start) ==
    LET paths == {state_path(st, t) : st \in Range(StdModelStates), t \in Grid(start)}
        dir(keep(_)) == [p \in paths |-> IF keep(p) THEN "data" ELSE "absent"]
        all(p) == TRUE
        none(p) == FALSE
        hronly(p) == p[1] \in Range(HrModelStates)
        older(p) == p[2] # strftime(start)
    IN  {dir(all), dir(none), dir(hronly), dir(older)}

InitCycle ==
    /\ systemStartTime \in DesiredTimes
    /\ failTime = systemStartTime - MaxBack * StepMinutes
    /\ modelStates = StdModelStates
    /\ store \in CycleStores(systemStartTime)
    /\ realSystemStartTime = systemStartTime
    /\ foundAllStates = FALSE
    /\ tested = <<>>
    /\ pc = "search"
    /\ fs = [p \in {TemplatePath \o <<StdTemplateName>>} |-> PlainTemplate]
    /\ LR_run = FALSE
    /\ out = NoRender
    /\ pin = NoRender
    /\ nRenders = 0
    /\ DaIdle
    /\ maxunitq = [exists |-> FALSE, band |-> <<>>]
    /\ \E r \in ChosenRasters, p \in Prerequisites :
          /\ maskgrid = [exists |-> p[1], footprints |-> r.footprints]
          /\ gaugeList = [exists |-> p[2], lines |-> GaugeListOf({3, 7})]
          /\ \E t \in {<<HeadLine, StartLine, OldGaugeLine, EndLine, TailLine>>,
                        <<HeadLine, TailLine>>} :
                hrTemplate = [exists |-> p[3], lines |-> t]
    /\ highres_min_gauges = 1
    /\ HrOutputsIdle
    /\ SEND_ALERTS = TRUE
    /\ alert_recipients = <<"fixer1">>
    /\ run_highres \in BOOLEAN
    /\ highres_threshold \in {[set |-> FALSE, value |-> 0],
                               [set |-> TRUE, value |-> Threshold]}
    /\ highres_tmpOutput \in {HrTmpOutput, StdTmpOutput}
    /\ highres_dataPath \in {HrDataPath, StdDataPath}
    /\ CycleAtStart

\* run_ef5_simulation: tp.apply_async(run_EF5, args) hands the control file
\* to the engine in a worker thread
InvokeEngine ==
    /\ pc = "done"
    /\ engine = "idle"
    /\ engine' = "running"
    /\ pc' = "join"
    /\ UNCHANGED <<statesVars, renderVars, daVars, hrVars>>
    /\ UNCHANGED <<alertConfig, mails, steps, cycleConfig>>

\* run_EF5 in the worker thread: subprocess.call blocks until the engine
\* exits; the engine has written its raster or, when it failed, nothing (the
\* exit code is not looked at)
EngineRun ==
    /\ engine = "running"
    /\ \E ok \in BOOLEAN :
          \E r \in {x \in ChosenRasters : x.footprints = maskgrid.footprints} :
             /\ fs' = IF ok THEN write_file(fs, EngineOutput, RasterFile) ELSE fs
             /\ maxunitq' = [exists |-> FALSE, band |-> IF ok THEN r.band ELSE <<>>]
    /\ engine' = "finished"
    /\ UNCHANGED <<statesVars, daVars, pc, LR_run, out, pin, nRenders>>
    /\ UNCHANGED <<maskgrid, gaugeList, hrTemplate, highres_min_gauges,
                   selection, templateWritten, hrPath>>
    /\ UNCHANGED <<alertConfig, mails, steps, cycleConfig>>

\* the rest of run_ef5_simulation and the branch on run_highres
AfterEngine ==
    /\ IF EngineOutput \in DOMAIN fs
       THEN /\ fs' = rename(fs, EngineOutput, maxunitq_path)
            /\ maxunitq' = [maxunitq EXCEPT !.exists = TRUE]
       ELSE UNCHANGED <<fs, maxunitq>>
    /\ pc' = IF run_highres THEN "hr_start" ELSE "cycle_end"
    /\ UNCHANGED <<statesVars, daVars, LR_run, out, pin, nRenders>>
    /\ UNCHANGED <<maskgrid, gaugeList, hrTemplate, highres_min_gauges,
                   selection, templateWritten, hrPath>>
    /\ UNCHANGED cycleVars

\* a run_ef5_simulation that goes on without waiting for the worker
JoinEngine_nowait ==
    /\ pc = "join"
    /\ AfterEngine

\* run_ef5_simulation: tp.close(); tp.join() returns when the worker is
\* done; then the outputs are renamed to carry the timestamp of the cycle
JoinEngine ==
    /\ pc = "join"
    /\ engine = "finished"
    /\ AfterEngine

NextCycle ==
    \/ SearchStep \/ SearchReturn \/ PrepareWrite
    \/ InvokeEngine \/ EngineRun \/ JoinEngine
    \/ SkipForPrerequisites \/ PrepareHighresControl \/ StartHighRes
    \/ SkipHighRes \/ RunHighRes

SpecCycle == InitCycle /\ [][NextCycle]_vars

-----------------------------------------------------------------------------
(* Claims about state resolution *)

\* every variable of the list has an existing, non-empty raster at time t
Complete(t) ==
    \A s \in Range(modelStates) :
        state_path(s, t) \in DOMAIN store /\ store[state_path(s, t)] = "data"

\* the timestamps on the 30-minute grid below the desired time
Candidates == {systemStartTime - k * 30 : k \in 0..(2 * (MaxBack + 2))}

Returned == pc \in {"returned", "done"}

\* C1: whenever the search returns found=true, the returned timestamp is the
\* desired time minus a whole number of 30-minute steps, lies between the
\* floor and the desired time, and every variable of the set has an existing,
\* non-empty raster at exactly that timestamp.
C1_FoundIsValid ==
    (Returned /\ foundAllStates) =>
        /\ realSystemStartTime \in Candidates
        /\ realSystemStartTime <= systemStartTime
        /\ realSystemStartTime >= failTime
        /\ Complete(realSystemStartTime)

\* C1's case: a search that backed off and then found a non-empty set
C1_Witness ==
    /\ Returned /\ foundAllStates
    /\ modelStates # <<>>
    /\ realSystemStartTime < systemStartTime
    /\ \E p \in DOMAIN store : store[p] = "empty"

\* C2: found=false is returned only after every timestamp from the desired
\* time down to the floor, the floor itself included when it lies on the
\* grid, was tested and found incomplete; a complete set at the floor never
\* gives found=false.
C2_FalseOnlyAfterAllTested ==
    (Returned /\ ~foundAllStates) =>
        \A t \in Candidates :
            (failTime <= t /\ t <= systemStartTime) =>
                (t \in Range(tested) /\ ~Complete(t))

\* C2's failing case: a complete set lies at a floor on the grid below the
\* desired time, and the search returns found=false without probing it
C2_Witness ==
    /\ Returned /\ ~foundAllStates
    /\ modelStates # <<>>
    /\ failTime < systemStartTime /\ failTime \in Candidates
    /\ Complete(failTime)
    /\ failTime \notin Range(tested)

\* C3 as claimed: an unsuccessful search returns the desired start time, and
\* that is the run-start time of the control document.
C3_NotFoundReturnsDesired ==
    (pc = "done" /\ ~foundAllStates) =>
        /\ realSystemStartTime = systemStartTime
        /\ out.doc[1] = <<Tok("TIME_BEGIN="), StampTok(systemStartTime), NL>>

\* C3 as amended: an unsuccessful search returns the timestamp at which it
\* stopped, the first desired - k*30min (k >= 0) that is not above the floor
\* (the desired time itself only when the desired time is not above the
\* floor), and that timestamp is the run-start time of the control document.
C3_NotFoundReturnsStopTime ==
    (Returned /\ ~foundAllStates) =>
        /\ realSystemStartTime \in Candidates
        /\ realSystemStartTime <= failTime
        /\ (realSystemStartTime = systemStartTime \/ realSystemStartTime + 30 > failTime)
        /\ (pc = "done" =>
              out.doc[1] = <<Tok("TIME_BEGIN="), StampTok(realSystemStartTime), NL>>)

\* C3's case: a cold start whose search backed off below the desired time
C3_Witness ==
    /\ pc = "done" /\ ~foundAllStates
    /\ realSystemStartTime < systemStartTime
    /\ Len(tested) >= 2

\* C4: a timestamp returned with found=true is the most recent candidate: no
\* later timestamp of the grid up to the desired time holds a complete set.
C4_MostRecent ==
    (Returned /\ foundAllStates) =>
        \A t \in Candidates :
            (realSystemStartTime < t /\ t <= systemStartTime) => ~Complete(t)

\* C4's case: the set is found two steps back
C4_Witness ==
    /\ Returned /\ foundAllStates
    /\ modelStates # <<>>
    /\ realSystemStartTime = systemStartTime - 60

-----------------------------------------------------------------------------
(* Claims about the control document *)

HasRendered == out # NoRender

\* the template the last render read
TemplateOf(a) == fs[templateFile(a)]

\* a directive is active in a document when some line holds it uncommented
Active(doc, directive) ==
    \E i \in 1..Len(doc) : Contains(doc[i], directive) /\ ~StartsWithHash(doc[i])

HashCount(line) == Cardinality({i \in 1..Len(line) : line[i].t = "#"})

\* the placeholder tokens a template may hold
Placeholders ==
    {"{OUTPUTPATH}", "{STATESPATH}", "{TIMEBEGIN}", "{TIMEWARMEND}", "{TIMESTATE}",
     "{TIMEEND}", "{TIMEBEGINLR}", "{TIMESTEPLR}", "{SYSTEMMODEL}", "{OBSPATH}"}

\* C5: in every control document exactly one of the two task directives is
\* active: the QPE line when LR_run is false (the QPF line commented), the
\* QPF line when LR_run is true (the QPE line commented), for every template,
\* also one whose QPE line is already commented.
C5_ExactlyOneTask ==
    HasRendered =>
        IF out.args.LR_run
        THEN Active(out.doc, "task=Simulation_QPF") /\ ~Active(out.doc, "task=Simulation_QPE")
        ELSE Active(out.doc, "task=Simulation_QPE") /\ ~Active(out.doc, "task=Simulation_QPF")

\* C5's failing case: observation-driven mode and a template whose QPE line
\* is commented
C5_Witness ==
    /\ HasRendered /\ ~out.args.LR_run
    /\ ~Active(TemplateOf(out.args), "task=Simulation_QPE")
    /\ ~Active(out.doc, "task=Simulation_QPE")
    /\ ~Active(out.doc, "task=Simulation_QPF")

\* C6: when states were found, every line of the control document that holds
\* TIME_WARMEND= is commented, and it carries one comment marker more than
\* the template's line only when that line was not commented already.
C6_WarmEndCommented ==
    (HasRendered /\ out.args.statesFound) =>
        \A i \in 1..Len(out.doc) :
            Contains(out.doc[i], "TIME_WARMEND=") =>
                /\ StartsWithHash(out.doc[i])
                /\ HashCount(out.doc[i]) =
                      HashCount(TemplateOf(out.args)[i])
                        + (IF StartsWithHash(TemplateOf(out.args)[i]) THEN 0 ELSE 1)

\* C6's cases: a render with states found that commented an active
\* warm-up-end line, after one whose template had the line commented already
C6_Witness ==
    /\ HasRendered /\ out.args.statesFound
    /\ pin # NoRender /\ pin.args.statesFound
    /\ \E i \in 1..Len(out.doc) :
          /\ Contains(TemplateOf(out.args)[i], "TIME_WARMEND=")
          /\ ~StartsWithHash(TemplateOf(out.args)[i])
          /\ StartsWithHash(out.doc[i])
    /\ \E i \in 1..Len(pin.doc) :
          /\ Contains(TemplateOf(pin.args)[i], "TIME_WARMEND=")
          /\ StartsWithHash(TemplateOf(pin.args)[i])
          /\ pin.doc[i] # TemplateOf(pin.args)[i]

\* C7: a render called with the arguments of an earlier render leaves the
\* same control document, whatever was rendered in between.
C7_RenderIdempotent ==
    (HasRendered /\ pin # NoRender /\ out.args = pin.args) => out.doc = pin.doc

\* C7's case: the third render repeats the first, the control documents of
\* both resolutions are on disk
C7_Witness ==
    /\ nRenders = 3
    /\ pin # NoRender /\ out.args = pin.args
    /\ \E p \in DOMAIN fs : IsPrefix(HrTmpOutput.dir, p)
    /\ \E p \in DOMAIN fs : IsPrefix(StdTmpOutput.dir, p)

\* C8: a control document that was rendered holds no unreplaced placeholder;
\* a placeholder without a value is an error and leaves no document.
C8_NoPlaceholderLeft ==
    HasRendered =>
        \A i \in 1..Len(out.doc) : \A j \in 1..Len(out.doc[i]) :
            out.doc[i][j].t \notin Placeholders

\* C8's failing case: the template asks for a value the renderer has not
C8_Witness ==
    /\ HasRendered
    /\ controlFilePath(out.args) \in DOMAIN fs
    /\ \E i \in 1..Len(out.doc) : Contains(out.doc[i], "{OBSPATH}")

-----------------------------------------------------------------------------
(* Claims about data assimilation *)

PathsPrepared == pc \in {"da_paths", "da_done"}
ManualSeries(rid) == series_path(DaManualPath, rid)
ClimatologySeries(rid) == series_path(DaClimatologyPath, rid)

\* the timestamps the chain of attempts gives the rows of a series file
Parsed(path) == parse_timestamps(daFiles[path], elementwiseDates)

\* the manual series of rid exists, parses, has a row at or before the window
\* start less the margin and a row at or after the window end plus the margin
ManualEncloses(rid, margin) ==
    /\ ManualSeries(rid) \in DOMAIN daFiles
    /\ Parsed(ManualSeries(rid)).ok
    /\ \E i \in 1..Len(daFiles[ManualSeries(rid)]) :
          Parsed(ManualSeries(rid)).ts[i] <= start_time - margin
    /\ \E i \in 1..Len(daFiles[ManualSeries(rid)]) :
          Parsed(ManualSeries(rid)).ts[i] >= end_time + margin

(* C9: prepare_da_paths maps every reservoir of the list to exactly one path:
   the manual path if and only if the manual file exists, parses, and its
   minimum timestamp is <= the window start and its maximum timestamp is >=
   the window end; otherwise the climatological path. A reservoir whose
   manual series covers [start-10, end+10] is never given the climatological
   path. *)
C9_ManualIffCovers ==
    PathsPrepared =>
        /\ DOMAIN da_path_map = Range(reservoirs)
        /\ \A rid \in Range(reservoirs) :
              /\ da_path_map[rid] \in {ManualSeries(rid), ClimatologySeries(rid)}
              /\ da_path_map[rid] = ManualSeries(rid) <=> ManualEncloses(rid, 0)
              /\ ManualEncloses(rid, 10) => da_path_map[rid] # ClimatologySeries(rid)

\* two reservoirs: the manual series of one starts and ends exactly on the
\* window and is chosen; the manual series of the other exists and parses but
\* does not cover the window, and the climatological path is chosen
C9_Witness ==
    /\ pc = "da_paths"
    /\ \E r1, r2 \in Range(reservoirs) :
          /\ r1 # r2
          /\ ManualSeries(r1) \in DOMAIN daFiles
          /\ Parsed(ManualSeries(r1)).ok
          /\ SeqMin(Parsed(ManualSeries(r1)).ts) = start_time
          /\ SeqMax(Parsed(ManualSeries(r1)).ts) = end_time
          /\ da_path_map[r1] = ManualSeries(r1)
          /\ ManualSeries(r2) \in DOMAIN daFiles
          /\ Parsed(ManualSeries(r2)).ok
          /\ da_path_map[r2] = ClimatologySeries(r2)

\* the consolidated table, empty when no file was written
TableRows ==
    IF consolidated_csv_path = <<>> THEN <<>>
    ELSE consolidatedDir[consolidated_csv_path[2]]

RowsTagged(rid) ==
    Cardinality({k \in 1..Len(TableRows) : TableRows[k].reservoir_id = rid})

\* the rows of the selected series of rid with a timestamp in the window; a
\* series that is absent or does not parse has no timestamps
SelectedInWindow(rid) ==
    IF da_path_map[rid] \notin DOMAIN daFiles THEN 0
    ELSE IF ~Parsed(da_path_map[rid]).ok THEN 0
         ELSE Cardinality({i \in 1..Len(daFiles[da_path_map[rid]]) :
                              /\ start_time <= Parsed(da_path_map[rid]).ts[i]
                              /\ Parsed(da_path_map[rid]).ts[i] <= end_time})

(* C10: in the consolidated table the number of rows tagged with a reservoir
   equals the number of rows of its selected series whose timestamp t
   satisfies start <= t <= end; a reservoir with no row in the window stays
   in the path mapping and contributes no row, and consolidation completes. *)
C10_RowCount ==
    pc = "da_done" =>
        \A rid \in Range(reservoirs) :
            /\ rid \in DOMAIN da_path_map
            /\ RowsTagged(rid) = SelectedInWindow(rid)

\* two reservoirs: one contributes its only row, which lies on the end of the
\* window; the selected series of the other parses and has no row in the window
C10_Witness ==
    /\ pc = "da_done"
    /\ start_time < end_time
    /\ consolidated_csv_path # <<>>
    /\ \E r1, r2 \in Range(reservoirs) :
          /\ r1 # r2
          /\ da_path_map[r1] \in DOMAIN daFiles
          /\ Parsed(da_path_map[r1]).ok
          /\ Parsed(da_path_map[r1]).ts = <<end_time>>
          /\ RowsTagged(r1) = 1
          /\ da_path_map[r2] \in DOMAIN daFiles
          /\ Parsed(da_path_map[r2]).ok
          /\ SelectedInWindow(r2) = 0
          /\ RowsTagged(r2) = 0

\* every listed reservoir has a selected series that exists and parses, and
\* none of them has a row in the window (true of the empty list)
NoRowInWindow ==
    \A rid \in Range(reservoirs) :
        /\ da_path_map[rid] \in DOMAIN daFiles
        /\ Parsed(da_path_map[rid]).ok
        /\ SelectedInWindow(rid) = 0

(* C11: if no reservoir contributes a row inside the window (all selected
   series exist and parse but have no row in [start, end], or the list is
   empty), create_consolidated_da_csv returns no path and writes no
   consolidated file. *)
C11_NoRowsNoArtifact ==
    (pc = "da_done" /\ NoRowInWindow) =>
        /\ consolidated_csv_path = <<>>
        /\ glob(consolidatedDir) = {}

\* a listed reservoir whose selected series parses and has no row in the
\* window: a path is returned and a consolidated file without rows is there
C11_Witness ==
    /\ pc = "da_done"
    /\ reservoirs # <<>>
    /\ NoRowInWindow
    /\ consolidated_csv_path # <<>>
    /\ glob(consolidatedDir) = {consolidated_name(TimestampStr)}
    /\ TableRows = <<>>

RECURSIVE SumInWindow(_)
SumInWindow(rs) ==
    IF rs = <<>> THEN 0 ELSE SelectedInWindow(Head(rs)) + SumInWindow(Tail(rs))

(* C12: consolidation is a full replace: after create_consolidated_da_csv
   completes, the folder holds at most one consolidated file, the one of the
   current call, and it holds only rows of the current call, none of an
   earlier file. *)
C12_FullReplace ==
    pc = "da_done" =>
        /\ glob(consolidatedDir) \subseteq {consolidated_name(TimestampStr)}
        /\ consolidated_csv_path # <<>> =>
              /\ glob(consolidatedDir) = {consolidated_name(TimestampStr)}
              /\ Len(TableRows) = SumInWindow(reservoirs)
              /\ \A k \in 1..Len(TableRows) : TableRows[k] \notin Range(OldTable)

\* an earlier consolidated file was in the folder and a new one was written
C12_Witness ==
    /\ pc = "da_done"
    /\ consolidated_csv_path # <<>>
    /\ Len(TableRows) > 0
    /\ OtherFile \in DOMAIN consolidatedDir
    /\ glob(consolidatedDir) = {consolidated_name(TimestampStr)}

\* the manual series of rid is missing or does not parse
ManualUnusable(rid) ==
    \/ ManualSeries(rid) \notin DOMAIN daFiles
    \/ ~Parsed(ManualSeries(rid)).ok

(* C13: a missing reservoir list file makes process_da_for_simulation raise,
   and no mapping and no consolidated path is returned; with the list there it
   does not raise, and a reservoir whose manual file is missing or does not
   parse is given the climatological path while every other reservoir is
   still selected on its own manual series alone. *)
C13_FailureModes ==
    /\ pc = "da_raised" =>
          ~daListFile.exists /\ da_path_map = <<>> /\ consolidated_csv_path = <<>>
    /\ PathsPrepared =>
          /\ daListFile.exists
          /\ \A r1 \in Range(reservoirs) :
                ManualUnusable(r1) =>
                    /\ da_path_map[r1] = ClimatologySeries(r1)
                    /\ \A r2 \in Range(reservoirs) \ {r1} :
                          da_path_map[r2] = ManualSeries(r2) <=> ManualEncloses(r2, 0)

\* two reservoirs: the manual file of one is there and does not parse, and
\* the manual series of the other is chosen
C13_Witness ==
    /\ pc = "da_done"
    /\ \E r1, r2 \in Range(reservoirs) :
          /\ ManualSeries(r1) \in DOMAIN daFiles
          /\ ~Parsed(ManualSeries(r1)).ok
          /\ da_path_map[r1] = ClimatologySeries(r1)
          /\ da_path_map[r2] = ManualSeries(r2)

-----------------------------------------------------------------------------
(* Claims about the high-resolution gauge selection *)

\* prepare_highres_control has been called and has returned or raised
Prepared == pc \in {"hr_selected", "hr_rerun", "hr_norerun"}

\* cell i of the output raster is not masked, is finite and is >= threshold
Qualifies(i) ==
    /\ ~maxunitq.band[i].masked
    /\ maxunitq.band[i].kind = "num"
    /\ maxunitq.band[i].x >= Threshold

NoCellQualifies == \A i \in 1..Len(maxunitq.band) : ~Qualifies(i)

\* the non-negative mask values under the cells that qualify
MaskValuesUnderHotCells ==
    {c.v : c \in {d \in UNION {Range(maskgrid.footprints[i]) :
                                  i \in {j \in 1..Len(maxunitq.band) : Qualifies(j)}} :
                     ~d.masked /\ d.v >= 0}}

StrictlyAscending(seq) == \A i \in 1..(Len(seq) - 1) : seq[i] < seq[i + 1]

(* C14: the selection the selector returns is the ascending, duplicate-free
   set of the non-negative mask values found under exactly those cells of
   the output raster that are not masked, are finite and are >= threshold;
   masked cells never qualify and negative mask values are never selected. *)
C14_SelectionIsHotMaskValues ==
    (Prepared /\ selection.returned /\ maxunitq.exists) =>
        /\ StrictlyAscending(selection.gauge_ids)
        /\ Range(selection.gauge_ids) = MaskValuesUnderHotCells

\* cells [0.5, 2.0, 0.9], threshold 1.0, mask values {3, 7, 3} under the
\* second cell: the selection is [3, 7]
C14_Witness ==
    /\ Prepared
    /\ maxunitq.exists
    /\ maxunitq.band = <<NumCell(FALSE, 5), NumCell(FALSE, 20), NumCell(FALSE, 9)>>
    /\ maskgrid.footprints[2] = Unmasked(<<3, 7, 3>>)
    /\ selection = [returned |-> TRUE, gauge_ids |-> <<3, 7>>]

(* C15 as stated: when no cell of the output raster is valid and >=
   threshold, the selector returns the empty selection whatever the mask
   holds, and this is not an error. *)
C15_NoHotCellEmpty ==
    (Prepared /\ maxunitq.exists /\ NoCellQualifies) =>
        /\ selection = [returned |-> TRUE, gauge_ids |-> <<>>]
        /\ pc # "hr_rerun"

(* C15 amended: when no cell of the output raster is valid and >= threshold
   and the template holds the start marker, the selector returns the empty
   selection whatever the mask holds and the rerun is not started; when the
   template lacks the start marker the selector raises, nothing is returned
   and the rerun is not started. *)
C15_NoHotCellEmptyOrMarkerError ==
    (Prepared /\ maxunitq.exists /\ NoCellQualifies) =>
        /\ pc # "hr_rerun"
        /\ selection.gauge_ids = <<>>
        /\ selection.returned <=> HasStartMarker(hrTemplate.lines)

\* no cell qualifies while the mask holds gauges under a masked cell, and the
\* empty selection is returned
C15_Witness ==
    /\ pc = "hr_norerun"
    /\ maxunitq.exists
    /\ NoCellQualifies
    /\ \E i \in 1..Len(maxunitq.band) :
          /\ maxunitq.band[i].masked
          /\ \E k \in 1..Len(maskgrid.footprints[i]) :
                ~maskgrid.footprints[i][k].masked /\ maskgrid.footprints[i][k].v >= 0
    /\ selection = [returned |-> TRUE, gauge_ids |-> <<>>]

(* C16: for every input, the gauge identifiers of the selection returned by
   prepare_highres_control are strictly ascending, so without duplicates. *)
C16_SelectionStrictlyAscending ==
    (Prepared /\ selection.returned) => StrictlyAscending(selection.gauge_ids)

\* gauges found as 7, 3 under one cell and 9, 3 under another are returned
\* as 3, 7, 9
C16_Witness ==
    /\ Prepared
    /\ maskgrid.footprints = <<Unmasked(<<7, 3>>), Unmasked(<<9, 3>>)>>
    /\ selection = [returned |-> TRUE, gauge_ids |-> <<3, 7, 9>>]

\* the template file has been written and holds a block between its first
\* start marker and the next end marker
BlockWritten ==
    /\ Prepared
    /\ templateWritten
    /\ EndsAfter(hrTemplate.lines, FirstStart(hrTemplate.lines)) # {}

RenderedBlock ==
    SubSeq(hrTemplate.lines, FirstStart(hrTemplate.lines),
           FirstEnd(hrTemplate.lines, FirstStart(hrTemplate.lines)))

\* the gauge lines, the basin's gauge references and the annotation of a block
GaugeLinesOf(block) == SelectSeq(block, LAMBDA l : Head(l).t = "[Gauge]")
BasinRefsOf(block) == SelectSeq(block, LAMBDA l : Head(l).t = "gauge=")
AnnotationsOf(block) == SelectSeq(block, LAMBDA l : Head(l).t = "#")

\* the identifiers an annotation line names
NamedIds(line) == {line[k].n : k \in {j \in 1..Len(line) : line[j].t \notin {"#", "\n"}}}

Lookup == _load_gauge_lookup(gaugeList.lines)

(* C17: in every rendered block the gauge lines carry the local indices
   0..N-1 exactly, in ascending-identifier order over the surviving gauges,
   and the basin references exactly those N indices, also when some selected
   identifiers are absent from the gauge lookup table. *)
C17_ContiguousLocalIndices ==
    BlockWritten =>
        LET g == GaugeLinesOf(RenderedBlock)
        IN  /\ \A k \in 1..Len(g) : g[k][1].n = k - 1
            /\ \A k \in 1..(Len(g) - 1) : g[k][2].n < g[k + 1][2].n
            /\ Len(g) > 0 =>
                  BasinRefsOf(RenderedBlock) =
                      <<[k \in 1..Len(g) |-> [t |-> "gauge=", n |-> k - 1]] \o <<NL>>>>
            /\ Len(g) = 0 => BasinRefsOf(RenderedBlock) = <<>>

\* gauges 3 and 7 are selected and 3 has no lookup entry: the only gauge line
\* carries index 1 and the basin references index 0
C17_Witness ==
    /\ BlockWritten
    /\ selection = [returned |-> TRUE, gauge_ids |-> <<3, 7>>]
    /\ 3 \notin DOMAIN Lookup
    /\ Len(GaugeLinesOf(RenderedBlock)) = 1
    /\ GaugeLinesOf(RenderedBlock)[1][1].n = 1
    /\ BasinRefsOf(RenderedBlock) = <<<<[t |-> "gauge=", n |-> 0], NL>>>>

(* C18: identifiers absent from the gauge lookup table are dropped without
   an error and are dropped from the final selection: they are neither in
   the returned selection nor in the annotation of the rendered block. *)
C18_AbsentIdsDropped ==
    (Prepared /\ maxunitq.exists /\ HasStartMarker(hrTemplate.lines)) =>
        /\ selection.returned
        /\ Range(selection.gauge_ids) \subseteq DOMAIN Lookup
        /\ BlockWritten =>
              \A k \in 1..Len(AnnotationsOf(RenderedBlock)) :
                  NamedIds(AnnotationsOf(RenderedBlock)[k]) \subseteq DOMAIN Lookup

\* gauge 3 has no lookup entry, is in the returned selection and is named in
\* the annotation of the block
C18_Witness ==
    /\ BlockWritten
    /\ selection.returned
    /\ 3 \in Range(selection.gauge_ids)
    /\ 3 \notin DOMAIN Lookup
    /\ \E k \in 1..Len(AnnotationsOf(RenderedBlock)) :
          3 \in NamedIds(AnnotationsOf(RenderedBlock)[k])

(* C19: if the template does not hold both the start marker and the end
   marker, rewriting the block fails with an error and the template is not
   rewritten, also when only the end marker is missing. *)
C19_MissingMarkerIsFatal ==
    (Prepared /\ maxunitq.exists /\ ~HasBothMarkers(hrTemplate.lines)) =>
        /\ ~selection.returned
        /\ ~templateWritten

\* a template with the start marker and without the end marker: the selector
\* returns and the template file has been written
C19_Witness ==
    /\ Prepared
    /\ maxunitq.exists
    /\ HasStartMarker(hrTemplate.lines)
    /\ ~HasBothMarkers(hrTemplate.lines)
    /\ selection.returned
    /\ templateWritten

\* the gauges written to the block
SurvivingCount == IF BlockWritten THEN Len(GaugeLinesOf(RenderedBlock)) ELSE 0

(* C20: the orchestrator starts the high-resolution path only if the number
   of gauges written to the block is at least the configured minimum; below
   it the path is not started. *)
C20_GateOnSurvivingCount ==
    pc = "hr_rerun" => SurvivingCount >= highres_min_gauges

\* the block was written with one gauge line, the minimum is two, and the
\* high-resolution path was started
C20_Witness ==
    /\ pc = "hr_rerun"
    /\ hrPath # <<>>
    /\ BlockWritten
    /\ highres_min_gauges = 2
    /\ SurvivingCount = 1

-----------------------------------------------------------------------------
(* Further claims about state resolution *)

(* C26: for every floor <= desired, equality allowed: if all required
   variables have a valid raster at the desired timestamp, the search returns
   found=true with the desired timestamp after zero backtracking steps; and
   if the set at the desired timestamp is not complete and desired-30min is
   not below the floor, it returns found=true with desired-30min if and only
   if all variables exist there. *)
C26_DesiredOrOneStepBack ==
    (Returned /\ failTime <= systemStartTime) =>
        /\ Complete(systemStartTime) =>
              /\ foundAllStates
              /\ realSystemStartTime = systemStartTime
              /\ tested = <<systemStartTime>>
        /\ (~Complete(systemStartTime) /\ systemStartTime - 30 >= failTime) =>
              ((foundAllStates /\ realSystemStartTime = systemStartTime - 30)
                  <=> Complete(systemStartTime - 30))

\* the floor equals the desired time, the set at the desired time is
\* complete, and the search returns found=false without a probe
C26_Witness ==
    /\ Returned
    /\ modelStates # <<>>
    /\ failTime = systemStartTime
    /\ Complete(systemStartTime)
    /\ ~foundAllStates
    /\ tested = <<>>

(* C27: the search always terminates; the candidate timestamp goes down by
   30 minutes with every iteration, the iterations are at most
   (desired - floor) / 30min rounded up, for every content of the state
   store and every variable set, and the state store is never written. *)
C27_SearchTerminates ==
    /\ [](/\ Len(tested) <= (systemStartTime - failTime + 29) \div 30
          /\ \A i \in 1..Len(tested) : tested[i] = systemStartTime - (i - 1) * 30)
    /\ [][store' = store]_vars
    /\ <>(pc # "search")

\* a search that used every iteration the bound allows, over an empty store
C27_Witness ==
    /\ Returned
    /\ ~foundAllStates
    /\ Len(tested) >= 2
    /\ Len(tested) = (systemStartTime - failTime + 29) \div 30
    /\ \A p \in DOMAIN store : store[p] = "absent"

-----------------------------------------------------------------------------
(* Further claims about data assimilation *)

\* the place of a reservoir in the list
ListPosition(rid) == CHOOSE i \in 1..Len(reservoirs) : reservoirs[i] = rid

(* C28: the rows of the consolidated table are grouped by reservoir in the
   order of the reservoir list, not sorted by timestamp, and the rows of one
   reservoir keep the order they have in the selected series. *)
C28_ListOrderThenSourceOrder ==
    pc = "da_done" =>
        \A k, l \in 1..Len(TableRows) :
            k < l =>
                /\ ListPosition(TableRows[k].reservoir_id)
                      <= ListPosition(TableRows[l].reservoir_id)
                /\ TableRows[k].reservoir_id = TableRows[l].reservoir_id =>
                      TableRows[k].value < TableRows[l].value

\* EMB2100004 is listed before EMB2100002 and its row comes first in the
\* table although it carries the later timestamp
C28_Witness ==
    /\ pc = "da_done"
    /\ reservoirs = <<"EMB2100004", "EMB2100002">>
    /\ Len(TableRows) = 2
    /\ TableRows[1].reservoir_id = "EMB2100004"
    /\ TableRows[2].reservoir_id = "EMB2100002"
    /\ TableRows[1].timestamp_formatted = [a |-> 1, b |-> 13]
    /\ TableRows[2].timestamp_formatted = [a |-> 1, b |-> 2]

-----------------------------------------------------------------------------
(* Further claims about the high-resolution gauge selection *)

MarkerCount(template, marker) ==
    Cardinality({i \in 1..Len(template) : Contains(template[i], marker)})

\* the template the next cycle would leave when it selects the same gauges
RewrittenAgain ==
    _update_template_block(hrTemplate.lines,
        _render_block_text(selection.gauge_ids, Lookup, GaugeNamePrefix)).lines

\* the lines of a template behind its first end marker
AfterBlock(template) ==
    SubSeq(template, FirstEnd(template, FirstStart(template)) + 1, Len(template))

(* C30: rewriting replaces exactly the region from the start marker through
   the end marker: the text before the start marker and after the end marker
   is left unchanged, the rewritten template holds one start and one end
   marker again, and rewriting once more with the same selection gives the
   same template. *)
C30_RewriteRepeatable ==
    (BlockWritten /\ selection.returned
        /\ MarkerCount(hrTemplate.lines, StartMarker) = 1
        /\ MarkerCount(hrTemplate.lines, EndMarker) = 1) =>
            /\ MarkerCount(RewrittenAgain, StartMarker) = 1
            /\ MarkerCount(RewrittenAgain, EndMarker) = 1
            /\ SubSeq(RewrittenAgain, 1, FirstStart(RewrittenAgain) - 1)
                  = SubSeq(hrTemplate.lines, 1, FirstStart(hrTemplate.lines) - 1)
            /\ AfterBlock(RewrittenAgain) = AfterBlock(hrTemplate.lines)
            /\ RewrittenAgain = hrTemplate.lines

\* a template with one block was rewritten; rewriting it again with the same
\* selection puts one more empty line behind the end marker
C30_Witness ==
    /\ BlockWritten
    /\ selection.returned
    /\ MarkerCount(hrTemplate.lines, StartMarker) = 1
    /\ MarkerCount(hrTemplate.lines, EndMarker) = 1
    /\ RewrittenAgain # hrTemplate.lines
    /\ AfterBlock(hrTemplate.lines) = <<BlankLine, TailLine>>
    /\ AfterBlock(RewrittenAgain) = <<BlankLine, BlankLine, TailLine>>

-----------------------------------------------------------------------------
(* Claims about the alerts and the steps of prepare_ef5 *)

\* one mail of a severity to every recipient, in the order of the list
OneEach(sev) ==
    [i \in 1..Len(alert_recipients) |-> [to |-> alert_recipients[i], severity |-> sev]]

\* the mails the policy asks for, given the result of the search
PolicyMails ==
    IF ~foundAllStates THEN OneEach("failed")
    ELSE IF realSystemStartTime < systemStartTime THEN OneEach("warning")
    ELSE <<>>

(* C23: the alert is a function of (found, resolved, desired): none when
   found and resolved = desired, a warning when found and resolved < desired,
   a failure when not found; one severity for a call, sent once to each
   recipient. *)
C23_AlertPolicy ==
    pc = "done" => mails = PolicyMails

(* C23, amended: when alert mails are enabled in the configuration, the
   alert is that function of (found, resolved, desired), one severity for a
   call, sent once to each recipient; when they are disabled no alert is
   sent, whatever the search returned. *)
C23_AlertPolicyWhenEnabled ==
    /\ pc = "done" => mails = IF SEND_ALERTS THEN PolicyMails ELSE <<>>
    /\ pc # "done" => mails = <<>>

\* an older set of states was used and both recipients got one warning
C23_Witness ==
    /\ pc = "done"
    /\ SEND_ALERTS
    /\ foundAllStates
    /\ realSystemStartTime = systemStartTime - 30
    /\ mails = <<[to |-> "fixer1", severity |-> "warning"],
                 [to |-> "fixer2", severity |-> "warning"]>>

\* a cold start with alerts disabled: no mail although there are recipients
C23_DisabledWitness ==
    /\ pc = "done"
    /\ ~SEND_ALERTS
    /\ ~foundAllStates
    /\ alert_recipients = <<"fixer1", "fixer2">>
    /\ mails = <<>>

(* C24: preparing a run executes state resolution, the alert policy, the
   data-assimilation selection and consolidation, and the rendering of the
   control document, in this order, and returns the control document and the
   resolved start time: the data-assimilation step has run before the
   control document is produced. *)
C24_StepsOfPrepare ==
    pc = "done" =>
        /\ steps = <<"find_available_states", "send_state_alerts",
                     "process_da_for_simulation", "write_control_file">>
        /\ out.args.realSystemStartTime = realSystemStartTime
        /\ controlFilePath(out.args) \in DOMAIN fs

\* the run is prepared and the data-assimilation selector was never called
C24_Witness ==
    /\ pc = "done"
    /\ steps = <<"find_available_states", "send_state_alerts", "write_control_file">>
    /\ controlFilePath(out.args) \in DOMAIN fs
    /\ reservoirs = <<>>
    /\ da_path_map = <<>>
    /\ consolidated_csv_path = <<>>

-----------------------------------------------------------------------------
(* Claims about the cycle of the orchestrator *)

\* the positions of the cycle behind run_ef5_simulation
AfterStandardRun ==
    pc \in {"hr_start", "hr_skipped", "hr_selected", "hr_norerun", "hr_rerun",
            "aborted", "cycle_end"}

\* the files of the standard run's output directory
StandardFiles(files) == {p \in DOMAIN files : IsPrefix(StdDataPath.dir, p)}

\* the control document of the standard run
StandardControlFile == StdTmpOutput.dir \o <<"WA_Regional_crest.txt">>

(* C21: within a cycle the order is render, invoke, wait, select: the
   standard control document is written before the engine is invoked with
   it, the invocation is awaited, and the selector reads the output raster
   only after the engine has finished, never while it is running. *)
C21_RenderInvokeWaitSelect ==
    /\ [][(engine = "idle" /\ engine' = "running") =>
             /\ pc = "done"
             /\ out.args.tmpOutput = StdTmpOutput
             /\ controlFilePath(out.args) \in DOMAIN fs
             /\ fs[controlFilePath(out.args)] = out.doc]_vars
    /\ [](engine = "running" => (pc = "join" /\ HrOutputsIdle))
    /\ [](AfterStandardRun => engine = "finished")
    /\ [][(selection' # selection \/ templateWritten' # templateWritten) =>
             (engine = "finished" /\ pc = "hr_start")]_vars

\* the engine has finished, its raster is there under the cycle's name, and
\* the selector has read it and selected gauges
C21_Witness ==
    /\ pc = "hr_selected"
    /\ engine = "finished"
    /\ maxunitq.exists
    /\ maxunitq_path \in DOMAIN fs
    /\ selection.returned
    /\ selection.gauge_ids # <<>>
    /\ StandardControlFile \in DOMAIN fs

\* prepare_highres_control was called and raised
Raised == pc \in {"hr_selected", "hr_norerun"} /\ ~selection.returned

(* C22: an error raised while the high-resolution path is prepared is caught
   by the orchestrator and becomes "path skipped" with count 0: no
   high-resolution render or engine run follows, the orchestrator does not
   abort, and the standard run's control document and outputs stay as they
   are. *)
C22_PreparationErrorSkipsPath ==
    /\ [](Raised =>
             /\ selected_count(selection) = 0
             /\ ~RerunGate(selection, highres_min_gauges)
             /\ hrPath = <<>>
             /\ nRenders = 1
             /\ out.args.tmpOutput = StdTmpOutput)
    /\ [](pc \in {"hr_rerun", "aborted"} => selection.returned)
    /\ [][(pc = "hr_start" /\ ~selection'.returned) =>
             (pc' \in {"hr_skipped", "hr_selected"}
                 /\ fs' = fs /\ maxunitq' = maxunitq /\ hrTemplate' = hrTemplate)]_vars
    /\ [][Raised =>
             (pc' = "hr_norerun" /\ fs' = fs /\ maxunitq' = maxunitq
                 /\ out' = out /\ engine' = engine)]_vars

\* the configuration has no threshold: the path was skipped and the raster
\* and the control document of the standard run are in place
C22_Witness ==
    /\ pc = "hr_norerun"
    /\ ~highres_threshold.set
    /\ ~selection.returned
    /\ hrPath = <<>>
    /\ maxunitq.exists
    /\ maxunitq_path \in DOMAIN fs
    /\ fs[StandardControlFile] = out.doc

\* the template has no start marker: the path was skipped
C22_MarkerWitness ==
    /\ pc = "hr_norerun"
    /\ highres_threshold.set
    /\ ~selection.returned
    /\ hrTemplate.lines = <<HeadLine, TailLine>>
    /\ maxunitq.exists

(* C25: with run_highres set, the prerequisites there and enough gauges
   selected, the orchestrator completes the high-resolution path: states
   resolved and the second template rendered, the engine invoked once with
   the high-resolution control document and awaited, and no unhandled
   error. *)
C25_HighResPathCompletes ==
    (run_highres /\ maskgrid.exists /\ gaugeList.exists /\ hrTemplate.exists
        /\ RerunGate(selection, highres_min_gauges))
      => /\ pc \in {"hr_selected", "hr_rerun", "cycle_end"}
         /\ pc = "cycle_end" => hrPath = <<"_sync_highres_states", "prepare_ef5",
                                           "run_ef5_simulation">>

\* the high-resolution control document was rendered, the call of
\* run_ef5_simulation raised, and the only engine run is the standard one
C25_Witness ==
    /\ pc = "aborted"
    /\ hrPath = <<"_sync_highres_states", "prepare_ef5", "run_ef5_simulation">>
    /\ RerunGate(selection, highres_min_gauges)
    /\ nRenders = 2
    /\ out.args.tmpOutput = HrTmpOutput
    /\ controlFilePath(out.args) \in DOMAIN fs
    /\ engine = "finished"

(* C29: the standard and the high-resolution path use disjoint working
   directories: rendering the high-resolution control document deletes and
   recreates only its own directories and leaves the standard path's working
   directory, control document and output rasters as they are, for every
   configuration, one that omits the high-resolution directories included. *)
C29_DisjointDirectories ==
    /\ [](/\ ~IsPrefix(StdDataPath.dir, highres_tmpOutput.dir)
          /\ ~IsPrefix(StdDataPath.dir, highres_dataPath.dir)
          /\ ~IsPrefix(highres_dataPath.dir, StdTmpOutput.dir))
    /\ [][(pc = "hr_selected" /\ pc' = "hr_rerun") =>
             /\ \A p \in StandardFiles(fs) : p \in DOMAIN fs' /\ fs'[p] = fs[p]
             /\ maxunitq' = maxunitq]_vars

\* the configuration omits both directories: after the high-resolution render
\* the raster of the standard run is gone and its control document holds the
\* rendered high-resolution template
C29_Witness ==
    /\ pc = "hr_rerun"
    /\ highres_tmpOutput = StdTmpOutput
    /\ highres_dataPath = StdDataPath
    /\ ~maxunitq.exists
    /\ maxunitq_path \notin DOMAIN fs
    /\ out.args.template = HrTemplateName
    /\ controlFilePath(out.args) = StandardControlFile
    /\ fs[StandardControlFile] = out.doc

\* with the directories of Cuba_config.py the standard files survive
C29_ConfiguredWitness ==
    /\ pc = "hr_rerun"
    /\ highres_tmpOutput = HrTmpOutput
    /\ highres_dataPath = HrDataPath
    /\ maxunitq.exists
    /\ maxunitq_path \in DOMAIN fs
    /\ StandardControlFile \in DOMAIN fs
    /\ controlFilePath(out.args) # StandardControlFile

====
